---- MODULE Spec2Model ----
(***************************************************************************)
(* Video-understanding system: the action / instruction alignment engine.  *)
(*                                                                         *)
(*   - VideoAnalysisAgent._calculate_match_score   (src/ai_agent.py)       *)
(*   - VideoAnalysisAgent.match_with_instruction   (src/ai_agent.py)       *)
(*   - LiveAnalyzer                                (src/live_analyzer.py)  *)
(*   - analyze_video                               (src/analyzer.py)       *)
(*   - analyze_webcam.main                         (src/analyze_webcam.py) *)
(*   - record_webcam.main, WebcamRecorder          (src/record_webcam.py)  *)
(*                                                                         *)
(* Representation.  A Python str is a sequence of characters, each a       *)
(* one-character string; the Cyrillic letters the code's patterns use are  *)
(* written by their code points ("U+0428" is CYRILLIC CAPITAL LETTER SHA). *)
(* Optional[T] is a sequence of length at most one: <<>> is None and <<x>> *)
(* is the value x.  A float that the code computes as a ratio of two       *)
(* integers is the pair <<numerator, denominator>>; a float parsed from    *)
(* decimal text is the pair <<digits, 10^(number of fraction digits)>>.    *)
(* A reference to a DetectedAction of the list detected_actions is its     *)
(* 1-based position in that list.                                          *)
(***************************************************************************)
EXTENDS Integers, Sequences, FiniteSets, TLC

VARIABLES
    instruction,         \* Instruction.steps: the checklist (both modes)
    \* ---- LiveAnalyzer fields (src/live_analyzer.py:31-43)
    current_step,        \* 0-based cursor: the expected next step
    completed_steps,     \* step numbers completed, in completion order
    last_analysis_time,  \* timestamp of the last analyze_frame call
    current_action,      \* Optional[DetectedAction]
    warnings,            \* warning messages, in order
    action_history,      \* every observed DetectedAction, in order
    result,              \* Optional: the dict the last analyze_frame call returned
    calls,               \* history: analyze_frame calls the model replied to
    \* ---- one run of match_with_instruction (src/ai_agent.py:209-343)
    detected_actions,    \* the argument detected_actions
    llm_response,        \* the model's reply text
    matches,             \* the returned list of ActionMatch
    \* ---- one run of analyze_video (src/analyzer.py:19-91)
    frame_actions,       \* the DetectedAction built for every batch of frames
    missing_steps,       \* VideoAnalysisResult.missing_steps
    extra_actions,       \* VideoAnalysisResult.extra_actions, as references
    summary,             \* Optional: VideoAnalysisResult.summary
    \* ---- one call of _calculate_match_score (src/ai_agent.py:345-356)
    arg_instruction_desc,    \* the argument instruction_desc
    arg_action_desc,         \* the argument action_desc
    returned_score,      \* Optional: the float returned
    \* ---- one call of _are_similar_descriptions (src/ai_agent.py:196-207)
    returned_similar,    \* Optional: the bool returned for the same two texts
    \* ---- SquatsCounter fields (src/squats_counter.py:36-38)
    squat_count,         \* SquatsCounter.squat_count
    current_state,       \* SquatsCounter.current_state: a SquatState name
    squat_analysis_time, \* SquatsCounter.last_analysis_time
    squat_result,        \* Optional: the dict SquatsCounter.analyze_frame returned last
    detected_states,     \* history: the states detected by the calls so far
    \* ---- one run of analyze_webcam.main (src/analyze_webcam.py:14-156)
    instruction_data,    \* the "steps" of the JSON document loaded
    frame_time,          \* timestamp of the frame get_frame returned last
    \* ---- one run of record_webcam.main (src/record_webcam.py:113-200)
    is_recording,        \* WebcamRecorder.is_recording
    frame_count,         \* WebcamRecorder.frame_count
    written_frames,      \* frames handed to writer.write so far
    paused,              \* main's local paused
    rec_timestamp,       \* timestamp of the frame read last
    args_duration,       \* Optional: --duration
    pc                   \* "live" | "start" | "returned" | "raised" |
                         \* "frames" | "detected" | "analyzed" | "call" |
                         \* "scored" | "load" | "rejected" | "frame" |
                         \* "check" | "analyze" | "key" | "summary" |
                         \* "failed" | "done" | "rec_start" | "rec_frame" |
                         \* "rec_key" | "rec_stop" | "rec_done" |
                         \* "rec_failed" | "merge" | "merged" | "remerged" |
                         \* "compared" | "squats" | "squats_raised"

vars == <<instruction, current_step, completed_steps, last_analysis_time,
          current_action, warnings, action_history, result,
          detected_actions, llm_response, matches,
          frame_actions, missing_steps,
          arg_instruction_desc, arg_action_desc, returned_score,
          returned_similar, squat_count, current_state, squat_analysis_time,
          squat_result, detected_states, pc,
          calls, extra_actions, summary, instruction_data, frame_time,
          is_recording, frame_count, written_frames, paused, rec_timestamp,
          args_duration>>

liveVars == <<current_step, completed_steps, last_analysis_time,
              current_action, warnings, action_history, result, calls>>

batchVars == <<detected_actions, llm_response, matches>>

videoVars == <<frame_actions, missing_steps, extra_actions, summary>>

webcamVars == <<instruction_data, frame_time>>

recorderVars == <<is_recording, frame_count, written_frames, paused,
                  rec_timestamp, args_duration>>

scoreVars == <<arg_instruction_desc, arg_action_desc, returned_score,
               returned_similar>>

squatVars == <<squat_count, current_state, squat_analysis_time, squat_result,
               detected_states>>

(***************************************************************************)
(* Bounds of the model.                                                    *)
(***************************************************************************)
MaxSteps == 2        \* longest checklist
MaxCalls == 3        \* analyze_frame calls in one live session
MaxActions == 2      \* longest detected_actions list
MaxFrames == 3       \* most batches of frames in a video
MaxRecorded == 4     \* frames read in one recording session

(***************************************************************************)
(* Python values.                                                          *)
(***************************************************************************)
None == <<>>
Some(x) == <<x>>

Max(a, b) == IF a >= b THEN a ELSE b
Min(a, b) == IF a <= b THEN a ELSE b
Abs(a) == IF a >= 0 THEN a ELSE 0 - a

\* a ratio p/q as <<p, q>>, q > 0;  a > b
FracGT(a, b) == a[1] * b[2] > b[1] * a[2]
FracEQ(a, b) == a[1] * b[2] = b[1] * a[2]

(***************************************************************************)
(* str.lower(), str.upper(), str.split()                                   *)
(***************************************************************************)
UpperChars == <<"A", "B", "C", "D", "E", "F", "G", "H", "I", "J", "K", "L", "M",
                "N", "O", "P", "Q", "R", "S", "T", "U", "V", "W", "X", "Y", "Z",
                "U+0428", "U+0410", "U+0413", "U+0414", "U+041D", "U+0415",
                "U+0422", "U+0421", "U+041E", "U+0418", "U+041F", "U+0420">>
LowerChars == <<"a", "b", "c", "d", "e", "f", "g", "h", "i", "j", "k", "l", "m",
                "n", "o", "p", "q", "r", "s", "t", "u", "v", "w", "x", "y", "z",
                "U+0448", "U+0430", "U+0433", "U+0434", "U+043D", "U+0435",
                "U+0442", "U+0441", "U+043E", "U+0438", "U+043F", "U+0440">>

\* the lower-case (upper-case) form of every cased character of the model
LowerOf ==
    [c \in {UpperChars[i] : i \in DOMAIN UpperChars} |->
        LowerChars[CHOOSE i \in DOMAIN UpperChars : UpperChars[i] = c]]
UpperOf ==
    [c \in {LowerChars[i] : i \in DOMAIN LowerChars} |->
        UpperChars[CHOOSE i \in DOMAIN LowerChars : LowerChars[i] = c]]

LowerChar(c) == IF c \in DOMAIN LowerOf THEN LowerOf[c] ELSE c
UpperChar(c) == IF c \in DOMAIN UpperOf THEN UpperOf[c] ELSE c

\* mutant: the text is compared as written, upper case kept
lower_keeps_case(s) == s

lower(s) == [i \in DOMAIN s |-> LowerChar(s[i])]
upper(s) == [i \in DOMAIN s |-> UpperChar(s[i])]

\* Python's str.isspace() on the characters of the model, and the regex \s
IsSpace(c) == c \in {" ", "\n", "\t", "\r"}

\* length of the run of non-whitespace characters s starts with
RECURSIVE WordLen(_)
WordLen(s) ==
    IF s = <<>> \/ IsSpace(Head(s)) THEN 0 ELSE 1 + WordLen(Tail(s))

\* str.split(): the maximal runs of non-whitespace characters, in order
RECURSIVE split(_)
split(s) ==
    IF s = <<>> THEN <<>>
    ELSE IF IsSpace(Head(s)) THEN split(Tail(s))
    ELSE LET n == WordLen(s)
         IN  <<SubSeq(s, 1, n)>> \o split(SubSeq(s, n + 1, Len(s)))

\* set(words)
set(ws) == {ws[i] : i \in DOMAIN ws}

(***************************************************************************)
(* VideoAnalysisAgent._calculate_match_score (src/ai_agent.py:345-356):    *)
(* the float intersection / union as the pair <<intersection, union>>,     *)
(* and 0.0 as <<0, 1>>.                                                    *)
(***************************************************************************)
\* mutant: the shared words are counted against the instruction's words
_calculate_match_score_of_first(instruction_desc, action_desc) ==
    LET words1 == set(split(lower(instruction_desc)))
        words2 == set(split(lower(action_desc)))
    IN  IF words1 = {} \/ words2 = {}
        THEN <<0, 1>>
        ELSE <<Cardinality(words1 \cap words2), Cardinality(words1)>>

_calculate_match_score(instruction_desc, action_desc) ==
    LET words1 == set(split(lower(instruction_desc)))
        words2 == set(split(lower(action_desc)))
    IN  IF words1 = {} \/ words2 = {}
        THEN <<0, 1>>
        ELSE <<Cardinality(words1 \cap words2), Cardinality(words1 \cup words2)>>

(***************************************************************************)
(* models.py                                                               *)
(***************************************************************************)
InstructionStep(n, d) == [step_number |-> n, description |-> d]

DetectedAction(d, ts, te) ==
    [description |-> d, timestamp_start |-> ts, timestamp_end |-> te,
     confidence |-> <<8, 10>>]

ActionMatch(n, m, a, dev) ==
    [step_number |-> n, matched |-> m, detected_action |-> a, deviation |-> dev]

(***************************************************************************)
(* LiveAnalyzer (src/live_analyzer.py)                                     *)
(***************************************************************************)
\* the f-string of line 148, by the two step numbers it formats
WarningText(detected, expected) ==
    [text |-> "step_instead_of_step", detected |-> detected, expected |-> expected]

\* the f-string of lines 134, 158, 167
Progress(completed, steps) == <<Len(completed), Len(steps)>>

\* mutant: the loop passes over the expected step only, so it re-examines
\* the completed ones
Skipped_only_expected(i, cur) == i = cur

\* line 139: the steps the out-of-order loop passes over
Skipped(i, cur) == i <= cur

\* 0-based indices of the steps the loop of lines 138-147 does not pass over
\* that score > 0.3 against the action; the loop returns at the least one
LaterMatching(steps, cur, action) ==
    {i \in 0..(Len(steps) - 1) :
        /\ ~Skipped(i, cur)
        /\ FracGT(_calculate_match_score(steps[i + 1].description,
                                         action.description), <<3, 10>>)}

SetMin(S) == CHOOSE x \in S : \A y \in S : x <= y

\* lines 89-95: no action observed yet
Waiting(steps, cur, completed, warns) ==
    [current_step |-> cur, completed_steps |-> completed, warnings |-> warns,
     result |-> [status |-> "waiting", message |-> [text |-> "waiting"],
                 current_step |-> None, warnings |-> <<>>]]

\* mutant: the terminal state restarts the checklist
AllCompleted_restart(steps, cur, completed, warns) ==
    [current_step |-> 0, completed_steps |-> <<>>, warnings |-> warns,
     result |-> [status |-> "completed", message |-> [text |-> "all_done"],
                 current_step |-> None, warnings |-> warns,
                 completed |-> TRUE]]

\* lines 98-105: every step is completed
AllCompleted(steps, cur, completed, warns) ==
    [current_step |-> cur, completed_steps |-> completed, warnings |-> warns,
     result |-> [status |-> "completed", message |-> [text |-> "all_done"],
                 current_step |-> None, warnings |-> warns,
                 completed |-> TRUE]]

\* mutant: the cursor advances past the step after the completed one
StepCompleted_skip(steps, cur, completed, warns) ==
    LET expected_step == steps[cur + 1]
        completed2 == Append(completed, expected_step.step_number)
        cur2 == cur + 2
    IN  [current_step |-> cur2, completed_steps |-> completed2,
         warnings |-> warns,
         result |->
            [status |-> "step_completed",
             message |-> [text |-> "step_done",
                          step_number |-> expected_step.step_number,
                          description |-> expected_step.description],
             current_step |-> Some(expected_step.step_number),
             expected_next |->
                IF cur2 < Len(steps)
                THEN Some(steps[cur2 + 1].step_number) ELSE None,
             warnings |-> <<>>,
             progress |-> Progress(completed2, steps)]]

\* mutant: completing the final step already reports the checklist complete
StepCompleted_reports_done(steps, cur, completed, warns) ==
    LET expected_step == steps[cur + 1]
        completed2 == Append(completed, expected_step.step_number)
        cur2 == cur + 1
    IN  IF cur2 >= Len(steps)
        THEN [current_step |-> cur2, completed_steps |-> completed2,
              warnings |-> warns,
              result |-> [status |-> "completed",
                          message |-> [text |-> "all_done"],
                          current_step |-> None, warnings |-> warns,
                          completed |-> TRUE]]
        ELSE [current_step |-> cur2, completed_steps |-> completed2,
              warnings |-> warns,
              result |->
                 [status |-> "step_completed",
                  message |-> [text |-> "step_done",
                               step_number |-> expected_step.step_number,
                               description |-> expected_step.description],
                  current_step |-> Some(expected_step.step_number),
                  expected_next |-> Some(steps[cur2 + 1].step_number),
                  warnings |-> <<>>,
                  progress |-> Progress(completed2, steps)]]

\* lines 121-135: the action matches the expected step
StepCompleted(steps, cur, completed, warns) ==
    LET expected_step == steps[cur + 1]
        completed2 == Append(completed, expected_step.step_number)
        cur2 == cur + 1
    IN  [current_step |-> cur2, completed_steps |-> completed2,
         warnings |-> warns,
         result |->
            [status |-> "step_completed",
             message |-> [text |-> "step_done",
                          step_number |-> expected_step.step_number,
                          description |-> expected_step.description],
             current_step |-> Some(expected_step.step_number),
             expected_next |->
                IF cur2 < Len(steps)
                THEN Some(steps[cur2 + 1].step_number) ELSE None,
             warnings |-> <<>>,
             progress |-> Progress(completed2, steps)]]

\* mutant: the out-of-order path marks the detected step completed
OutOfOrder_completes(steps, cur, completed, warns, i) ==
    LET expected_step == steps[cur + 1]
        step == steps[i + 1]
        warning == WarningText(step.step_number, expected_step.step_number)
    IN  [current_step |-> cur,
         completed_steps |-> Append(completed, step.step_number),
         warnings |-> Append(warns, warning),
         result |->
            [status |-> "warning",
             message |-> warning,
             current_step |-> Some(expected_step.step_number),
             detected_step |-> Some(step.step_number),
             warnings |-> <<warning>>,
             progress |-> Progress(completed, steps)]]

\* lines 147-159: the action matches the step at 0-based index i instead
OutOfOrder(steps, cur, completed, warns, i) ==
    LET expected_step == steps[cur + 1]
        step == steps[i + 1]
        warning == WarningText(step.step_number, expected_step.step_number)
    IN  [current_step |-> cur, completed_steps |-> completed,
         warnings |-> Append(warns, warning),
         result |->
            [status |-> "warning",
             message |-> warning,
             current_step |-> Some(expected_step.step_number),
             detected_step |-> Some(step.step_number),
             warnings |-> <<warning>>,
             progress |-> Progress(completed, steps)]]

\* mutant: the in-progress path marks the expected step completed
InProgress_completes(steps, cur, completed, warns) ==
    LET expected_step == steps[cur + 1]
    IN  [current_step |-> cur,
         completed_steps |-> Append(completed, expected_step.step_number),
         warnings |-> warns,
         result |->
            [status |-> "in_progress",
             message |-> [text |-> "expected",
                          step_number |-> expected_step.step_number,
                          description |-> expected_step.description],
             current_step |-> Some(expected_step.step_number),
             warnings |-> <<>>,
             progress |-> Progress(completed, steps)]]

\* lines 161-168: the action matches no step
InProgress(steps, cur, completed, warns) ==
    LET expected_step == steps[cur + 1]
    IN  [current_step |-> cur, completed_steps |-> completed,
         warnings |-> warns,
         result |->
            [status |-> "in_progress",
             message |-> [text |-> "expected",
                          step_number |-> expected_step.step_number,
                          description |-> expected_step.description],
             current_step |-> Some(expected_step.step_number),
             warnings |-> <<>>,
             progress |-> Progress(completed, steps)]]

\* mutant: the out-of-order scan runs before the expected step is tried
_check_instruction_compliance_scan_first(steps, cur, completed, warns, cur_action) ==
    IF cur_action = None THEN Waiting(steps, cur, completed, warns)
    ELSE IF cur >= Len(steps) THEN AllCompleted(steps, cur, completed, warns)
    ELSE
        LET action == cur_action[1]
            match_score == _calculate_match_score(steps[cur + 1].description,
                                                  action.description)
            later == LaterMatching(steps, cur, action)
        IN  IF later # {}
            THEN OutOfOrder(steps, cur, completed, warns, SetMin(later))
            ELSE IF FracGT(match_score, <<3, 10>>)
            THEN StepCompleted(steps, cur, completed, warns)
            ELSE InProgress(steps, cur, completed, warns)

\* _check_instruction_compliance on the fields of self; the value is the
\* fields it leaves and the dict it returns
_check_instruction_compliance(steps, cur, completed, warns, cur_action) ==
    IF cur_action = None THEN Waiting(steps, cur, completed, warns)
    ELSE IF cur >= Len(steps) THEN AllCompleted(steps, cur, completed, warns)
    ELSE
        LET action == cur_action[1]
            match_score == _calculate_match_score(steps[cur + 1].description,
                                                  action.description)
            later == LaterMatching(steps, cur, action)
        IN  IF FracGT(match_score, <<3, 10>>)
            THEN StepCompleted(steps, cur, completed, warns)
            ELSE IF later # {}
            THEN OutOfOrder(steps, cur, completed, warns, SetMin(later))
            ELSE InProgress(steps, cur, completed, warns)

\* mutant: every frame is due for analysis
should_analyze_every_frame(current_time, analysis_interval) == TRUE

\* LiveAnalyzer.should_analyze(current_time), analysis_interval as given
should_analyze(current_time, analysis_interval) ==
    (current_time - last_analysis_time) >= analysis_interval

\* mutant: once the checklist is complete an observation is reported but
\* not recorded
analyze_frame_done_unrecorded(description, timestamp) ==
    /\ pc \in {"live", "analyze"}
    /\ Len(action_history) < MaxCalls
    /\ LET action == DetectedAction(description, timestamp, timestamp)
           done == current_step >= Len(instruction)
           r == _check_instruction_compliance(instruction, current_step,
                    completed_steps, warnings, Some(action))
       IN  /\ current_action' = IF done THEN current_action ELSE Some(action)
           /\ action_history' = IF done THEN action_history
                                ELSE Append(action_history, action)
           /\ current_step' = r.current_step
           /\ completed_steps' = r.completed_steps
           /\ warnings' = r.warnings
           /\ result' = Some(r.result)
           /\ last_analysis_time' = timestamp
           /\ calls' = calls + 1
    /\ pc' = IF pc = "analyze" THEN "key" ELSE pc
    /\ UNCHANGED <<instruction, detected_actions, llm_response, matches>>
    /\ UNCHANGED <<videoVars, scoreVars, squatVars, webcamVars, recorderVars>>

\* LiveAnalyzer.analyze_frame(frame, timestamp), the model replying with
\* description (agent.analyze_frame, src/ai_agent.py:33-55)
analyze_frame(description, timestamp) ==
    /\ pc \in {"live", "analyze"}
    /\ Len(action_history) < MaxCalls
    /\ LET action == DetectedAction(description, timestamp, timestamp)
           r == _check_instruction_compliance(instruction, current_step,
                    completed_steps, warnings, Some(action))
       IN  /\ current_action' = Some(action)
           /\ action_history' = Append(action_history, action)
           /\ current_step' = r.current_step
           /\ completed_steps' = r.completed_steps
           /\ warnings' = r.warnings
           /\ result' = Some(r.result)
           /\ last_analysis_time' = timestamp
           /\ calls' = calls + 1
    /\ pc' = IF pc = "analyze" THEN "key" ELSE pc
    /\ UNCHANGED <<instruction, detected_actions, llm_response, matches>>
    /\ UNCHANGED <<videoVars, scoreVars, squatVars, webcamVars, recorderVars>>

\* the fields of the runs a specification does not make
NoWebcamRun == instruction_data = <<>> /\ frame_time = 0

\* SquatsCounter.__init__ (src/squats_counter.py:36-38), no frame analysed
NoSquatRun ==
    /\ squat_count = 0
    /\ current_state = "UNKNOWN"
    /\ squat_analysis_time = 0
    /\ squat_result = None
    /\ detected_states = <<>>

NoRecorderRun ==
    /\ is_recording = FALSE
    /\ frame_count = 0
    /\ written_frames = 0
    /\ paused = FALSE
    /\ rec_timestamp = 0
    /\ args_duration = None

(***************************************************************************)
(* A live session: LiveAnalyzer.__init__ on a checklist, then              *)
(* analyze_frame calls on whatever the vision model describes.             *)
(***************************************************************************)
StepNumbers == {1, 2, 4}

\* step descriptions: "a b", "c d"
StepTexts == {<<"a", " ", "b">>, <<"c", " ", "d">>}

\* descriptions the vision model returns:
\*   "A b"    1 against "a b", 0 against "c d"
\*   "c  d\n" 1 against "c d", 0 against "a b"
\*   "a c"    1/3 against both
\*   "a x y"  1/4 against "a b", 0 against "c d"
\*   ""       0.0 against both (no words)
ObservedTexts ==
    {<<"A", " ", "b">>, <<"c", " ", " ", "d", "\n">>, <<"a", " ", "c">>,
     <<"a", " ", "x", " ", "y">>, <<>>}

Timestamps == {0, 5}

Steps == {InstructionStep(n, d) : n \in StepNumbers, d \in StepTexts}

\* checklists of at most MaxSteps steps with unique step numbers, the ones
\* the tracker is specified for (what a document may load: Documents)
Instructions ==
    {q \in UNION {[1..n -> Steps] : n \in 0..MaxSteps} :
        \A i, j \in DOMAIN q : q[i].step_number = q[j].step_number => i = j}

\* LiveAnalyzer.__init__ (src/live_analyzer.py:31-43)
InitLive ==
    /\ instruction \in Instructions
    /\ current_step = 0
    /\ completed_steps = <<>>
    /\ last_analysis_time = 0
    /\ current_action = None
    /\ warnings = <<>>
    /\ action_history = <<>>
    /\ result = None
    /\ detected_actions = <<>>
    /\ llm_response = <<>>
    /\ matches = <<>>
    /\ frame_actions = <<>>
    /\ missing_steps = <<>>
    /\ arg_instruction_desc = <<>>
    /\ arg_action_desc = <<>>
    /\ returned_score = None
    /\ returned_similar = None
    /\ NoSquatRun
    /\ pc = "live"
    /\ calls = 0
    /\ extra_actions = <<>>
    /\ summary = None
    /\ NoWebcamRun
    /\ NoRecorderRun

NextLive ==
    \E description \in ObservedTexts, timestamp \in Timestamps :
        \* the frame source's clock (src/webcam_processor.py:79) never runs back
        /\ timestamp >= last_analysis_time
        /\ analyze_frame(description, timestamp)

SpecLive == InitLive /\ [][NextLive]_vars

(***************************************************************************)
(* The regular expressions of match_with_instruction                       *)
(* (src/ai_agent.py:277-292), run on the reply text character by           *)
(* character.                                                              *)
(***************************************************************************)
DigitChars == <<"0", "1", "2", "3", "4", "5", "6", "7", "8", "9">>
IsDigit(c) == \E d \in DOMAIN DigitChars : DigitChars[d] = c
DigitVal(c) == (CHOOSE d \in DOMAIN DigitChars : DigitChars[d] = c) - 1

\* str(n) of a step number n >= 0, as the f-string of line 277 formats it
RECURSIVE str(_)
str(n) == IF n < 10 THEN <<DigitChars[n + 1]>>
          ELSE str(n \div 10) \o <<DigitChars[(n % 10) + 1]>>

\* the literal head of the pattern of line 277: "Шаг {step_number}:"
StepLabel(n) == <<"U+0428", "U+0430", "U+0433", " ">> \o str(n) \o <<":">>

\* the alternatives (DA|NET|YES|NO|ДА|НЕТ), in order
Verdicts == << <<"D", "A">>, <<"N", "E", "T">>, <<"Y", "E", "S">>, <<"N", "O">>,
               <<"U+0414", "U+0410">>, <<"U+041D", "U+0415", "U+0422">> >>

\* status in ['DA', 'YES', 'ДА'] (line 282)
YesTokens == {<<"D", "A">>, <<"Y", "E", "S">>, <<"U+0414", "U+0410">>}

\* a literal matches at position p, under re.IGNORECASE
LitAt(text, p, lit) ==
    /\ p + Len(lit) - 1 <= Len(text)
    /\ \A k \in DOMAIN lit : LowerChar(text[p + k - 1]) = LowerChar(lit[k])

\* \s* from p: the position after the run of whitespace
RECURSIVE SkipSpace(_, _)
SkipSpace(text, p) ==
    IF p <= Len(text) /\ IsSpace(text[p]) THEN SkipSpace(text, p + 1) ELSE p

\* [^\]\-]* from p
RECURSIVE SkipRange(_, _)
SkipRange(text, p) ==
    IF p <= Len(text) /\ text[p] \notin {"]", "-"}
    THEN SkipRange(text, p + 1) ELSE p

\* .* from p (no re.DOTALL: up to the end of the line)
RECURSIVE SkipLine(_, _)
SkipLine(text, p) ==
    IF p <= Len(text) /\ text[p] # "\n" THEN SkipLine(text, p + 1) ELSE p

\* [0-9.]* from p
RECURSIVE SkipNumber(_, _)
SkipNumber(text, p) ==
    IF p <= Len(text) /\ (IsDigit(text[p]) \/ text[p] = ".")
    THEN SkipNumber(text, p + 1) ELSE p

\* an optional single character c at p
SkipOpt(text, p, c) == IF p <= Len(text) /\ text[p] = c THEN p + 1 ELSE p

\* the pattern of line 277 anchored at position p: None, or the groups
\* (1: verdict, 2: time range or None, 3: the rest of the line)
StepPatternAt(text, p, n) ==
    LET label == StepLabel(n)
        v0 == SkipSpace(text, p + Len(label))
        alts == {k \in DOMAIN Verdicts : LitAt(text, v0, Verdicts[k])}
        k == SetMin(alts)
        v1 == v0 + Len(Verdicts[k])
        dash == SkipSpace(text, v1)
        r0 == SkipOpt(text, SkipSpace(text, dash + 1), "[")
        r1 == SkipRange(text, r0)
        c0 == SkipSpace(text,
                SkipOpt(text, SkipSpace(text, SkipOpt(text, r1, "]")), "-"))
        c1 == SkipLine(text, c0)
    IN  IF ~LitAt(text, p, label) \/ alts = {} THEN None
        ELSE IF ~(dash <= Len(text) /\ text[dash] = "-") THEN None
        ELSE Some([group1 |-> SubSeq(text, v0, v1 - 1),
                   group2 |-> IF r1 > r0 THEN Some(SubSeq(text, r0, r1 - 1))
                              ELSE None,
                   group3 |-> SubSeq(text, c0, c1 - 1)])

\* re.search(pattern, llm_response, re.IGNORECASE | re.MULTILINE): the
\* match at the leftmost position that has one
StepPatternSearch(text, n) ==
    LET at == {p \in 1..Len(text) : StepPatternAt(text, p, n) # None}
    IN  IF at = {} THEN None ELSE StepPatternAt(text, SetMin(at), n)

\* re.search(r'([0-9.]+)\s*с?\s*(?:-\s*([0-9.]+)\s*с?)?', time_range) of
\* line 289: None, or the groups (1, and 2 or None)
TimePatternSearch(time_range) ==
    LET at == {p \in 1..Len(time_range) :
                    IsDigit(time_range[p]) \/ time_range[p] = "."}
        p0 == SetMin(at)
        p1 == SkipNumber(time_range, p0)
        d == SkipSpace(time_range,
                SkipOpt(time_range, SkipSpace(time_range, p1), "U+0441"))
        q0 == SkipSpace(time_range, d + 1)
        q1 == SkipNumber(time_range, q0)
        second == d <= Len(time_range) /\ time_range[d] = "-" /\ q1 > q0
    IN  IF at = {} THEN None
        ELSE Some([group1 |-> SubSeq(time_range, p0, p1 - 1),
                   group2 |-> IF second
                              THEN Some(SubSeq(time_range, q0, q1 - 1))
                              ELSE None])

\* float(text) accepts a run of digits and dots when it has one dot at most
\* and a digit; it raises ValueError otherwise
FloatOk(run) ==
    /\ Cardinality({i \in DOMAIN run : run[i] = "."}) <= 1
    /\ \E i \in DOMAIN run : IsDigit(run[i])

RECURSIVE DigitsValue(_)
DigitsValue(ds) ==
    IF ds = <<>> THEN 0
    ELSE 10 * DigitsValue(SubSeq(ds, 1, Len(ds) - 1)) + DigitVal(ds[Len(ds)])

RECURSIVE Pow10(_)
Pow10(k) == IF k = 0 THEN 1 ELSE 10 * Pow10(k - 1)

\* float(run) as <<digits, 10^(fraction digits)>>
float(run) ==
    LET dots == {i \in DOMAIN run : run[i] = "."}
        dot == IF dots = {} THEN Len(run) + 1 ELSE SetMin(dots)
        ds == SubSeq(run, 1, dot - 1) \o SubSeq(run, dot + 1, Len(run))
    IN  <<DigitsValue(ds), Pow10(Max(0, Len(run) - dot))>>

\* str.strip()
RECURSIVE rstrip(_)
rstrip(t) ==
    IF t # <<>> /\ IsSpace(t[Len(t)]) THEN rstrip(SubSeq(t, 1, Len(t) - 1)) ELSE t
strip(t) == LET r == rstrip(t) IN SubSeq(r, SkipSpace(r, 1), Len(r))

(***************************************************************************)
(* VideoAnalysisAgent.match_with_instruction (src/ai_agent.py:209-343)     *)
(***************************************************************************)
\* float arithmetic on <<numerator, denominator>> pairs
Frac(n) == <<n, 1>>
FracSub(a, b) == <<a[1] * b[2] - b[1] * a[2], a[2] * b[2]>>
FracAbs(a) == <<Abs(a[1]), a[2]>>
FracLE(a, b) == a[1] * b[2] <= b[1] * a[2]
FracLT(a, b) == a[1] * b[2] < b[1] * a[2]
FracMin(a, b) == IF FracLE(a, b) THEN a ELSE b
FracMax(a, b) == IF FracLE(b, a) THEN a ELSE b

\* lines 296-304, from the action at position i on: the action of the
\* largest positive overlap with [start_time, end_time]
RECURSIVE OverlapLoop(_, _, _, _, _, _)
OverlapLoop(actions, start_time, end_time, i, best_overlap, best_match) ==
    IF i > Len(actions) THEN best_match
    ELSE
        LET action == actions[i]
            overlap_start == FracMax(Frac(action.timestamp_start), start_time)
            overlap_end == FracMin(Frac(action.timestamp_end), end_time)
            overlap == FracMax(Frac(0), FracSub(overlap_end, overlap_start))
        IN  IF FracGT(overlap, best_overlap)
            THEN OverlapLoop(actions, start_time, end_time, i + 1, overlap, Some(i))
            ELSE OverlapLoop(actions, start_time, end_time, i + 1,
                             best_overlap, best_match)

\* line 316: the action is nearer than the nearest so far (None: inf) and
\* nearer than 30 seconds
Nearer(distance, min_distance) ==
    /\ min_distance = None \/ FracLT(distance, min_distance[1])
    /\ FracLT(distance, Frac(30))

\* lines 307-318, from the action at position i on
RECURSIVE NearestLoop(_, _, _, _, _, _)
NearestLoop(actions, start_time, end_time, i, min_distance, best_match) ==
    IF i > Len(actions) THEN best_match
    ELSE
        LET action == actions[i]
            distance ==
                FracMin(FracAbs(FracSub(Frac(action.timestamp_start), start_time)),
                        FracAbs(FracSub(Frac(action.timestamp_end), end_time)))
        IN  IF /\ FracLE(Frac(action.timestamp_start), start_time)
               /\ FracLE(start_time, Frac(action.timestamp_end))
            THEN Some(i)
            ELSE IF Nearer(distance, min_distance)
            THEN NearestLoop(actions, start_time, end_time, i + 1,
                             Some(distance), Some(i))
            ELSE NearestLoop(actions, start_time, end_time, i + 1,
                             min_distance, best_match)

\* mutant: when no listed action is near the parsed range, a DetectedAction
\* made of the range itself is bound (position 0: not in the list)
ResolveByTime_unlisted(actions, start_time, end_time) ==
    LET best_match == OverlapLoop(actions, start_time, end_time, 1, Frac(0), None)
        nearest == NearestLoop(actions, start_time, end_time, 1, None, best_match)
    IN  IF best_match = None \/ FracEQ(start_time, end_time)
        THEN (IF nearest = None THEN Some(0) ELSE nearest)
        ELSE best_match

\* lines 296-318: the action bound to the parsed range
ResolveByTime(actions, start_time, end_time) ==
    LET best_match == OverlapLoop(actions, start_time, end_time, 1, Frac(0), None)
    IN  IF best_match = None \/ FracEQ(start_time, end_time)
        THEN NearestLoop(actions, start_time, end_time, 1, None, best_match)
        ELSE best_match

\* mutant: the best candidate is bound whether or not the step matched
BuildMatch_keeps_candidate(step, matched, best_match, deviation) ==
    ActionMatch(step.step_number, matched, best_match, deviation)

\* lines 335-340: the ActionMatch of a step
BuildMatch(step, matched, best_match, deviation) ==
    ActionMatch(step.step_number, matched,
                IF matched THEN best_match ELSE None, deviation)

\* mutant: a later action of the same score replaces the earlier one
Better_or_equal(score, best_score) ==
    FracGT(score, best_score) \/ (FracEQ(score, best_score) /\ score[1] > 0)

\* line 328: the score beats the best so far
Better(score, best_score) == FracGT(score, best_score)

\* lines 325-330, from the action at position i on: the best score and
\* the action that has it
RECURSIVE SimilarityLoop(_, _, _, _, _)
SimilarityLoop(actions, description, i, best_score, best_match) ==
    IF i > Len(actions)
    THEN [best_score |-> best_score, best_match |-> best_match]
    ELSE
        LET score == _calculate_match_score(description, actions[i].description)
        IN  IF Better(score, best_score)
            THEN SimilarityLoop(actions, description, i + 1, score, Some(i))
            ELSE SimilarityLoop(actions, description, i + 1, best_score, best_match)

\* the text of line 333, "Действие не обнаружено", by code points
NotDetectedText ==
    <<"U+0414", "U+0435", "U+0439", "U+0441", "U+0442", "U+0432",
      "U+0438", "U+0435", " ", "U+043D", "U+0435", " ", "U+043E",
      "U+0431", "U+043D", "U+0430", "U+0440", "U+0443", "U+0436",
      "U+0435", "U+043D", "U+043E">>

\* mutant: the fallback matches above 0.15
SimilarityFallback_low_threshold(step, actions) ==
    LET best == SimilarityLoop(actions, step.description, 1, Frac(0), None)
        matched == FracGT(best.best_score, <<15, 100>>)
    IN  [raised |-> FALSE,
         match |-> BuildMatch(step, matched, best.best_match,
                              IF ~matched THEN Some(NotDetectedText) ELSE None)]

\* lines 325-333: no line of the reply matches the pattern for the step
SimilarityFallback(step, actions) ==
    LET best == SimilarityLoop(actions, step.description, 1, Frac(0), None)
        matched == FracGT(best.best_score, <<25, 100>>)
    IN  [raised |-> FALSE,
         match |-> BuildMatch(step, matched, best.best_match,
                              IF ~matched THEN Some(NotDetectedText) ELSE None)]

\* lines 290-291: the range of a match of the time pattern
TimeRange(time_match) ==
    [start_time |-> float(time_match.group1),
     end_time |-> IF time_match.group2 # None
                  THEN float(time_match.group2[1])
                  ELSE float(time_match.group1)]

\* lines 281-323: a line of the reply matches the pattern for the step
ParsedVerdict(step, actions, regex_match) ==
    LET status == upper(regex_match.group1)
        matched == status \in YesTokens
        time_range == regex_match.group2
        comment == IF regex_match.group3 # <<>>
                   THEN Some(regex_match.group3) ELSE None
        time_match == IF matched /\ time_range # None /\ time_range[1] # <<>>
                      THEN TimePatternSearch(time_range[1]) ELSE None
        raises == /\ time_match # None
                  /\ \/ ~FloatOk(time_match[1].group1)
                     \/ /\ time_match[1].group2 # None
                        /\ ~FloatOk(time_match[1].group2[1])
        range == TimeRange(time_match[1])
        best_match == IF time_match # None
                      THEN ResolveByTime(actions, range.start_time, range.end_time)
                      ELSE None
        deviation == IF ~matched /\ comment # None
                     THEN Some(strip(comment[1])) ELSE None
    IN  IF raises
        THEN [raised |-> TRUE]
        ELSE [raised |-> FALSE,
              match |-> BuildMatch(step, matched, best_match, deviation)]

\* lines 273-341: one iteration of the loop over instruction.steps
MatchStep(step, actions, reply) ==
    LET regex_match == StepPatternSearch(reply, step.step_number)
    IN  IF regex_match # None
        THEN ParsedVerdict(step, actions, regex_match[1])
        ELSE SimilarityFallback(step, actions)

\* lines 272-343: the list returned, or the ValueError raised by float()
MatchAll(actions, steps, reply) ==
    LET each == [i \in DOMAIN steps |-> MatchStep(steps[i], actions, reply)]
    IN  IF \E i \in DOMAIN steps : each[i].raised
        THEN [raised |-> TRUE]
        ELSE [raised |-> FALSE,
              matches |-> [i \in DOMAIN steps |-> each[i].match]]

\* one call match_with_instruction(detected_actions, instruction), the model
\* replying with llm_response (line 266)
match_with_instruction ==
    /\ pc = "start"
    /\ LET r == MatchAll(detected_actions, instruction, llm_response)
       IN  IF r.raised
           THEN /\ pc' = "raised"
                /\ matches' = <<>>
           ELSE /\ pc' = "returned"
                /\ matches' = r.matches
    /\ UNCHANGED <<instruction, detected_actions, llm_response>>
    /\ UNCHANGED <<liveVars, videoVars, scoreVars, squatVars, webcamVars, recorderVars>>

(***************************************************************************)
(* One batch run: match_with_instruction on a checklist, a list of         *)
(* detected actions and whatever the language model replies.               *)
(***************************************************************************)
\* the checklist's descriptions, by step number: "a b", "c d", "a b"
BatchStepText(n) == IF n = 2 THEN <<"c", " ", "d">> ELSE <<"a", " ", "b">>

BatchStepNumbers == {1, 2, 3}

\* checklists of at most MaxSteps steps with unique step numbers
BatchInstructions ==
    {q \in UNION {[1..n -> {InstructionStep(k, BatchStepText(k)) :
                                k \in BatchStepNumbers}] : n \in 0..MaxSteps} :
        \A i, j \in DOMAIN q : q[i].step_number = q[j].step_number => i = j}

\* descriptions of detected actions:
\*   "A b"      1 against "a b", 0 against "c d"
\*   "c d x y"  1/2 against "c d", 0 against "a b"
\*   "a x y"    1/4 against "a b", 0 against "c d"
ActionTexts ==
    {<<"A", " ", "b">>, <<"c", " ", "d", " ", "x", " ", "y">>,
     <<"a", " ", "x", " ", "y">>}

\* the intervals of detected actions, in seconds, in temporal order
ActionSlots == << <<0, 15>>, <<20, 40>>, <<40, 60>> >>

\* lists of at most MaxActions detected actions in temporal order, as
\* analyze_video_sequence returns them (src/ai_agent.py:120-173)
\* increasing choices of at most MaxActions intervals
SlotChoices ==
    {q \in UNION {[1..n -> DOMAIN ActionSlots] : n \in 0..MaxActions} :
        \A i, j \in DOMAIN q : i < j => q[i] < q[j]}

ActionLists ==
    UNION {{[i \in DOMAIN slots |->
                DetectedAction(texts[i], ActionSlots[slots[i]][1],
                               ActionSlots[slots[i]][2])] :
                texts \in [DOMAIN slots -> ActionTexts]} :
           slots \in SlotChoices}

\* the reply's line for step n, in the forms a model writes it:
\*   1  "Шаг n: DA - [5.0с-45.5с] - ok\n"   the prompted format
\*   2  "шаг n: да - [45]\n"                 lower case, one value
\*   3  "Шаг n: NET - - no \n"               negative, with a comment
\*   4  "Шаг n: DA - [..]\n"                 no number in the brackets
\*   5  "Шаг n: YES -\n"                     no time range
\*   6  "Шаг n: MAYBE - [5]\n"               no verdict token
\*   7  "Шаг n: NET - [5.0с-45.5с] - no\n"  negative, the prompted format
\*   8  "Шаг n: DA - [70.0с-100.0с] - ok\n" the prompted format, a range
\*                                          after every detected action
\*   0  no line
ReplyLine(n, form) ==
    CASE form = 1 ->
            StepLabel(n) \o <<" ", "D", "A", " ", "-", " ", "[", "5", ".", "0",
                "U+0441", "-", "4", "5", ".", "5", "U+0441", "]", " ", "-", " ",
                "o", "k", "\n">>
      [] form = 2 ->
            lower(StepLabel(n)) \o <<" ", "U+0434", "U+0430", " ", "-", " ", "[",
                "4", "5", "]", "\n">>
      [] form = 3 ->
            StepLabel(n) \o <<" ", "N", "E", "T", " ", "-", " ", "-", " ", "n",
                "o", " ", "\n">>
      [] form = 4 ->
            StepLabel(n) \o <<" ", "D", "A", " ", "-", " ", "[", ".", ".", "]",
                "\n">>
      [] form = 5 ->
            StepLabel(n) \o <<" ", "Y", "E", "S", " ", "-", "\n">>
      [] form = 6 ->
            StepLabel(n) \o <<" ", "M", "A", "Y", "B", "E", " ", "-", " ", "[",
                "5", "]", "\n">>
      [] form = 7 ->
            StepLabel(n) \o <<" ", "N", "E", "T", " ", "-", " ", "[", "5", ".",
                "0", "U+0441", "-", "4", "5", ".", "5", "U+0441", "]", " ", "-",
                " ", "n", "o", "\n">>
      [] form = 8 ->
            StepLabel(n) \o <<" ", "D", "A", " ", "-", " ", "[", "7", "0", ".",
                "0", "U+0441", "-", "1", "0", "0", ".", "0", "U+0441", "]", " ",
                "-", " ", "o", "k", "\n">>
      [] OTHER -> <<>>

ReplyForms == 0..8

\* replies: a line for step 1, or none, then a line for step 2, or none
Replies ==
    {ReplyLine(1, f1) \o ReplyLine(2, f2) : f1 \in ReplyForms, f2 \in ReplyForms}

InitBatch ==
    /\ instruction \in BatchInstructions
    /\ detected_actions \in ActionLists
    /\ llm_response \in Replies
    /\ matches = <<>>
    /\ pc = "start"
    /\ current_step = 0
    /\ completed_steps = <<>>
    /\ last_analysis_time = 0
    /\ current_action = None
    /\ warnings = <<>>
    /\ action_history = <<>>
    /\ result = None
    /\ frame_actions = <<>>
    /\ missing_steps = <<>>
    /\ arg_instruction_desc = <<>>
    /\ arg_action_desc = <<>>
    /\ returned_score = None
    /\ returned_similar = None
    /\ NoSquatRun
    /\ calls = 0
    /\ extra_actions = <<>>
    /\ summary = None
    /\ NoWebcamRun
    /\ NoRecorderRun

NextBatch == match_with_instruction

SpecBatch == InitBatch /\ [][NextBatch]_vars

(***************************************************************************)
(* VideoAnalysisAgent._merge_similar_actions and _are_similar_descriptions *)
(* (src/ai_agent.py:175-207)                                               *)
(***************************************************************************)
\* mutant: descriptions that share exactly half of their words are similar
_are_similar_descriptions_at_half(desc1, desc2) ==
    LET words1 == set(split(lower(desc1)))
        words2 == set(split(lower(desc2)))
    IN  IF words1 = {} \/ words2 = {}
        THEN FALSE
        ELSE ~FracGT(<<5, 10>>, <<Cardinality(words1 \cap words2),
                                  Cardinality(words1 \cup words2)>>)

\* _are_similar_descriptions: intersection / union > 0.5
_are_similar_descriptions(desc1, desc2) ==
    LET words1 == set(split(lower(desc1)))
        words2 == set(split(lower(desc2)))
    IN  IF words1 = {} \/ words2 = {}
        THEN FALSE
        ELSE FracGT(<<Cardinality(words1 \cap words2),
                      Cardinality(words1 \cup words2)>>, <<5, 10>>)

\* mutant: a gap of exactly 10 seconds is merged too
Absorbs_within_ten(last_action, action) ==
    LET time_gap == action.timestamp_start - last_action.timestamp_end
    IN  /\ time_gap <= 10
        /\ _are_similar_descriptions(last_action.description, action.description)

\* lines 184-189: the action continues the last merged interval
Absorbs(last_action, action) ==
    LET time_gap == action.timestamp_start - last_action.timestamp_end
    IN  /\ time_gap < 10
        /\ _are_similar_descriptions(last_action.description, action.description)

\* mutant: the merged interval ends at the later of the two ends
Absorb_to_latest(last_action, action) ==
    [last_action EXCEPT !.timestamp_end =
        IF action.timestamp_end > last_action.timestamp_end
        THEN action.timestamp_end ELSE last_action.timestamp_end]

\* line 190: the last merged interval, extended over the action
Absorb(last_action, action) ==
    [last_action EXCEPT !.timestamp_end = action.timestamp_end]

\* mutant: an action is compared with the description of the action before
\* it in the input, not with the description the merged interval kept
RECURSIVE MergeLoop_against_previous(_, _, _)
MergeLoop_against_previous(actions, i, merged) ==
    IF i > Len(actions) THEN merged
    ELSE
        LET action == actions[i]
            last_action == merged[Len(merged)]
            previous == [last_action EXCEPT
                            !.description = actions[i - 1].description]
        IN  IF Absorbs(previous, action)
            THEN MergeLoop_against_previous(actions, i + 1,
                    [merged EXCEPT ![Len(merged)] = Absorb(last_action, action)])
            ELSE MergeLoop_against_previous(actions, i + 1,
                                            Append(merged, action))

\* lines 182-192, from the action at position i on
RECURSIVE MergeLoop(_, _, _)
MergeLoop(actions, i, merged) ==
    IF i > Len(actions) THEN merged
    ELSE
        LET action == actions[i]
            last_action == merged[Len(merged)]
        IN  IF Absorbs(last_action, action)
            THEN MergeLoop(actions, i + 1,
                    [merged EXCEPT ![Len(merged)] = Absorb(last_action, action)])
            ELSE MergeLoop(actions, i + 1, Append(merged, action))

_merge_similar_actions(actions) ==
    IF actions = <<>> THEN <<>> ELSE MergeLoop(actions, 2, <<actions[1]>>)

\* the actions with their position in the list: merged holds the objects of
\* the list itself (lines 180, 192), so each merged interval is the action
\* at the position ref, extended in place by line 190
WithRefs(actions) ==
    [j \in DOMAIN actions |->
        [description |-> actions[j].description,
         timestamp_start |-> actions[j].timestamp_start,
         timestamp_end |-> actions[j].timestamp_end,
         confidence |-> actions[j].confidence,
         ref |-> j]]

\* the list that was passed to _merge_similar_actions, as the call leaves
\* it: the first action of every merged interval carries the interval's
\* timestamp_end, the absorbed actions are as they were
ArgumentAfterMerge(actions) ==
    LET merged == IF actions = <<>> THEN <<>>
                  ELSE MergeLoop(WithRefs(actions), 2, <<WithRefs(actions)[1]>>)
    IN  [j \in DOMAIN actions |->
            IF \E k \in DOMAIN merged : merged[k].ref = j
            THEN LET k == CHOOSE k \in DOMAIN merged : merged[k].ref = j
                 IN  [actions[j] EXCEPT !.timestamp_end = merged[k].timestamp_end]
            ELSE actions[j]]

(***************************************************************************)
(* analyze_video (src/analyzer.py:19-91): the detected actions of          *)
(* analyze_video_sequence, matched against the checklist.                  *)
(***************************************************************************)
\* VideoAnalysisAgent.analyze_video_sequence (src/ai_agent.py:107-173), the
\* model's descriptions of the frame batches being those of frame_actions;
\* the list the method builds from them and merges is local to the method,
\* frame_actions keeps the batches as they were described
analyze_video_sequence ==
    /\ pc = "frames"
    /\ detected_actions' = _merge_similar_actions(frame_actions)
    /\ pc' = "detected"
    /\ UNCHANGED <<instruction, llm_response, matches, videoVars>>
    /\ UNCHANGED <<liveVars, scoreVars, squatVars, webcamVars, recorderVars>>

\* src/analyzer.py:65-69
MissingSteps(action_matches) ==
    LET unmatched == SelectSeq(action_matches, LAMBDA match : ~match.matched)
    IN  [i \in DOMAIN unmatched |-> unmatched[i].step_number]

\* mutant: the ActionMatch holds a copy of the action it binds, so that no
\* detected action is recognised as bound
ExtraActions_of_copies(actions, action_matches) ==
    [k \in DOMAIN actions |-> k]

\* src/analyzer.py:71-73: the detected actions no ActionMatch refers to, by
\* object identity, in the order of detected_actions
ExtraActions(actions, action_matches) ==
    LET matched_action_ids ==
            {action_matches[i].detected_action[1] :
                i \in {j \in DOMAIN action_matches :
                           action_matches[j].detected_action # None}}
        Keep(k) == k \notin matched_action_ids
    IN  SelectSeq([k \in DOMAIN actions |-> k], Keep)

\* line 116: the row of a match is rendered as completed
RenderedDone(match) == match.matched /\ match.detected_action # None

\* generate_summary (src/analyzer.py:96-135): the numbers and rows of the
\* text it builds; actions: the list the references of the matches point into
generate_summary(steps, action_matches, actions, missing) ==
    [header |-> <<Len(SelectSeq(action_matches, LAMBDA m : m.matched)),
                  Len(steps)>>,
     rows |-> [i \in DOMAIN action_matches |->
        LET match == action_matches[i]
            step == steps[CHOOSE k \in DOMAIN steps :
                        /\ steps[k].step_number = match.step_number
                        /\ \A j \in 1..(k - 1) :
                              steps[j].step_number # match.step_number]
        IN  IF RenderedDone(match)
            THEN LET a == actions[match.detected_action[1]]
                 IN  [done |-> TRUE,
                      step_number |-> match.step_number,
                      description |-> step.description,
                      time_range |-> <<a.timestamp_start, a.timestamp_end>>,
                      duration |-> a.timestamp_end - a.timestamp_start]
            ELSE [done |-> FALSE,
                  step_number |-> match.step_number,
                  description |-> step.description]],
     missing |-> IF missing # <<>> THEN Some(missing) ELSE None,
     detected |-> Len(actions)]

\* src/analyzer.py:56-81, after analyze_video_sequence returned
analyze_video ==
    /\ pc = "detected"
    /\ LET r == MatchAll(detected_actions, instruction, llm_response)
       IN  IF r.raised
           THEN /\ pc' = "raised"
                /\ UNCHANGED <<matches, missing_steps, extra_actions, summary>>
           ELSE /\ pc' = "analyzed"
                /\ matches' = r.matches
                /\ missing_steps' = MissingSteps(r.matches)
                /\ extra_actions' = ExtraActions(detected_actions, r.matches)
                /\ summary' = Some(generate_summary(instruction, r.matches,
                                        detected_actions,
                                        MissingSteps(r.matches)))
    /\ UNCHANGED <<instruction, detected_actions, llm_response, frame_actions>>
    /\ UNCHANGED <<liveVars, scoreVars, squatVars, webcamVars, recorderVars>>

(***************************************************************************)
(* One run of analyze_video on a checklist, the actions the vision model   *)
(* describes and whatever the language model replies.                      *)
(***************************************************************************)
\* "prepare mold", "pour mixture"
PrepareMold ==
    <<"p", "r", "e", "p", "a", "r", "e", " ", "m", "o", "l", "d">>
PourMixture ==
    <<"p", "o", "u", "r", " ", "m", "i", "x", "t", "u", "r", "e">>

\* "mixing", "mixing water", "cleaning and preparing the mold",
\* "pouring mixture into mold"
Mixing ==
    <<"m", "i", "x", "i", "n", "g">>
MixingWater ==
    <<"m", "i", "x", "i", "n", "g", " ", "w", "a", "t", "e", "r">>
CleaningMold ==
    <<"c", "l", "e", "a", "n", "i", "n", "g", " ", "a", "n", "d", " ",
    "p", "r", "e", "p", "a", "r", "i", "n", "g", " ", "t", "h", "e", " ",
    "m", "o", "l", "d">>
PouringMixture ==
    <<"p", "o", "u", "r", "i", "n", "g", " ", "m", "i", "x", "t", "u",
    "r", "e", " ", "i", "n", "t", "o", " ", "m", "o", "l", "d">>

ScenarioSteps == <<InstructionStep(1, PrepareMold), InstructionStep(2, PourMixture)>>

\* the checklist of the video: the first steps of ScenarioSteps
VideoInstructions ==
    {SubSeq(ScenarioSteps, 1, n) : n \in 0..Min(MaxSteps, Len(ScenarioSteps))}

\* descriptions the vision model gives a batch of frames
FrameTexts == {Mixing, upper(Mixing), MixingWater, CleaningMold, PouringMixture}

\* batch[0]['timestamp'], batch[-1]['timestamp'] of a batch of frames
FrameSlots == << <<0, 5>>, <<0, 15>>, <<6, 10>>, <<20, 40>>, <<40, 45>> >>

\* the batches of a video: frames in temporal order, MaxFrames batches at most
FrameSlotChoices ==
    {q \in UNION {[1..n -> DOMAIN FrameSlots] : n \in 0..MaxFrames} :
        \A i, j \in DOMAIN q :
            i < j => /\ q[i] < q[j]
                     /\ FrameSlots[q[i]][2] <= FrameSlots[q[j]][1]}

FrameActionLists ==
    UNION {{[i \in DOMAIN slots |->
                DetectedAction(texts[i], FrameSlots[slots[i]][1],
                               FrameSlots[slots[i]][2])] :
                texts \in [DOMAIN slots -> FrameTexts]} :
           slots \in FrameSlotChoices}

\* replies: nothing; a line without a verdict token for each step; a
\* positive line for step 1 and a negative line for step 2
VideoReplies ==
    {<<>>, ReplyLine(1, 6) \o ReplyLine(2, 6), ReplyLine(1, 1) \o ReplyLine(2, 3)}

InitVideo ==
    /\ instruction \in VideoInstructions
    /\ frame_actions \in FrameActionLists
    /\ llm_response \in VideoReplies
    /\ detected_actions = <<>>
    /\ matches = <<>>
    /\ missing_steps = <<>>
    /\ extra_actions = <<>>
    /\ summary = None
    /\ pc = "frames"
    /\ current_step = 0
    /\ completed_steps = <<>>
    /\ last_analysis_time = 0
    /\ current_action = None
    /\ warnings = <<>>
    /\ action_history = <<>>
    /\ result = None
    /\ arg_instruction_desc = <<>>
    /\ arg_action_desc = <<>>
    /\ returned_score = None
    /\ returned_similar = None
    /\ NoSquatRun
    /\ calls = 0
    /\ NoWebcamRun
    /\ NoRecorderRun

NextVideo == analyze_video_sequence \/ analyze_video

SpecVideo == InitVideo /\ [][NextVideo]_vars

(***************************************************************************)
(* One call of _calculate_match_score on two texts.                        *)
(***************************************************************************)
\* the call _calculate_match_score(arg_instruction_desc, arg_action_desc)
calculate_match_score ==
    /\ pc = "call"
    /\ returned_score' =
            Some(_calculate_match_score(arg_instruction_desc, arg_action_desc))
    /\ pc' = "scored"
    /\ UNCHANGED <<instruction, arg_instruction_desc, arg_action_desc,
                   returned_similar>>
    /\ UNCHANGED <<liveVars, batchVars, videoVars, webcamVars, recorderVars,
                   squatVars>>

\* texts: "", " ", "a", "A", "a b", "b a", "a a", "a  b\n", "c", "a c"
ScoreTexts ==
    {<<>>, <<" ">>, <<"a">>, <<"A">>, <<"a", " ", "b">>, <<"b", " ", "a">>,
     <<"a", " ", "a">>, <<"a", " ", " ", "b", "\n">>, <<"c">>,
     <<"a", " ", "c">>}

InitScore ==
    /\ arg_instruction_desc \in ScoreTexts
    /\ arg_action_desc \in ScoreTexts
    /\ returned_score = None
    /\ returned_similar = None
    /\ NoSquatRun
    /\ pc = "call"
    /\ instruction = <<>>
    /\ current_step = 0
    /\ completed_steps = <<>>
    /\ last_analysis_time = 0
    /\ current_action = None
    /\ warnings = <<>>
    /\ action_history = <<>>
    /\ result = None
    /\ detected_actions = <<>>
    /\ llm_response = <<>>
    /\ matches = <<>>
    /\ frame_actions = <<>>
    /\ missing_steps = <<>>
    /\ calls = 0
    /\ extra_actions = <<>>
    /\ summary = None
    /\ NoWebcamRun
    /\ NoRecorderRun

NextScore == calculate_match_score

SpecScore == InitScore /\ [][NextScore]_vars

(***************************************************************************)
(* Claims about LiveAnalyzer, checked under SpecLive.                      *)
(***************************************************************************)
\* the step is an analyze_frame call
Called == Len(action_history') = Len(action_history) + 1

\* the description the model returned to that call
Observed == action_history'[Len(action_history')].description

\* the description scores > 0.3 against the step at 0-based index i
Scores(i, description) ==
    FracGT(_calculate_match_score(instruction[i + 1].description, description),
           <<3, 10>>)

StepNumberAt(i) == instruction[i + 1].step_number

LastObserved == action_history[Len(action_history)].description

\* C1: over any sequence of analyze_frame calls, current_step never
\* decreases and always satisfies 0 <= current_step <= len(steps).
C1_CursorMonotoneBounded ==
    /\ [](0 <= current_step /\ current_step <= Len(instruction))
    /\ [][current_step' >= current_step]_vars

\* C1 witness: the cursor reached the end of a two-step checklist in a
\* session with a call that did not advance it
C1_Witness ==
    /\ Len(instruction) = 2
    /\ current_step = 2
    /\ Len(action_history) = 3

\* C2: once current_step >= len(steps), every further analyze_frame call
\* emits 'completed' and leaves completed_steps and current_step unchanged.
C2_TerminalIdempotent ==
    [][(Called /\ current_step >= Len(instruction)) =>
            /\ result'[1].status = "completed"
            /\ completed_steps' = completed_steps
            /\ current_step' = current_step]_vars

\* C2 witness: a one-step checklist completed by the first call, then two
\* calls in the terminal state
C2_Witness ==
    /\ Len(instruction) = 1
    /\ Len(action_history) = 3
    /\ Scores(0, action_history[1].description)
    /\ current_step = 1
    /\ completed_steps = <<StepNumberAt(0)>>
    /\ result[1].status = "completed"

\* C3: with the cursor at i < len(steps), an observation scoring <= 0.3
\* against steps[i] and > 0.3 against a step at an index > i emits 'warning'
\* naming steps[i] as expected and the future step as detected, appends one
\* warning, and leaves current_step and completed_steps unchanged.
C3_OutOfOrderWarning ==
    [][(/\ Called
        /\ current_step < Len(instruction)
        /\ ~Scores(current_step, Observed)
        /\ \E j \in (current_step + 1)..(Len(instruction) - 1) :
                Scores(j, Observed)) =>
            /\ result'[1].status = "warning"
            /\ result'[1].current_step = Some(StepNumberAt(current_step))
            /\ \E j \in (current_step + 1)..(Len(instruction) - 1) :
                /\ Scores(j, Observed)
                /\ result'[1].detected_step = Some(StepNumberAt(j))
            /\ Len(warnings') = Len(warnings) + 1
            /\ SubSeq(warnings', 1, Len(warnings)) = warnings
            /\ result'[1].warnings = <<warnings'[Len(warnings')]>>
            /\ current_step' = current_step
            /\ completed_steps' = completed_steps]_vars

\* C3 witness: the last call warned about the second step while the first
\* was expected
C3_Witness ==
    /\ Len(instruction) = 2
    /\ current_step = 0
    /\ action_history # <<>>
    /\ ~Scores(0, LastObserved)
    /\ Scores(1, LastObserved)
    /\ result[1].status = "warning"
    /\ result[1].detected_step = Some(StepNumberAt(1))
    /\ completed_steps = <<>>

\* C4: with the cursor at i < len(steps), an observation scoring > 0.3
\* against steps[i] appends steps[i].step_number to completed_steps, advances
\* current_step to i+1 and emits 'step_completed' with that step number and
\* the next expected step number (none after the last step), even when the
\* observation also matches a later step; no warning is recorded.
C4_StepCompletion ==
    [][(/\ Called
        /\ current_step < Len(instruction)
        /\ Scores(current_step, Observed)) =>
            /\ completed_steps' =
                    Append(completed_steps, StepNumberAt(current_step))
            /\ current_step' = current_step + 1
            /\ result'[1].status = "step_completed"
            /\ result'[1].current_step = Some(StepNumberAt(current_step))
            /\ result'[1].expected_next =
                    IF current_step + 1 < Len(instruction)
                    THEN Some(StepNumberAt(current_step + 1)) ELSE None
            /\ result'[1].warnings = <<>>
            /\ warnings' = warnings]_vars

\* C4 witness: the first call completed the first step on an observation
\* that also matches the second step
C4_Witness ==
    /\ Len(instruction) = 2
    /\ Len(action_history) = 1
    /\ Scores(0, LastObserved)
    /\ Scores(1, LastObserved)
    /\ current_step = 1
    /\ result[1].status = "step_completed"
    /\ result[1].expected_next = Some(StepNumberAt(1))
    /\ warnings = <<>>

\* C5: an observation scoring > 0.3 only against steps below the cursor and
\* <= 0.3 against the expected step and all later ones yields 'in_progress'
\* restating the expected step, with current_step, completed_steps and
\* warnings unchanged; no step number is appended to completed_steps twice.
C5_NeverRevisitsCompleted ==
    /\ [][(/\ Called
           /\ current_step < Len(instruction)
           /\ \E j \in 0..(current_step - 1) : Scores(j, Observed)
           /\ \A j \in current_step..(Len(instruction) - 1) :
                    ~Scores(j, Observed)) =>
                /\ result'[1].status = "in_progress"
                /\ result'[1].current_step = Some(StepNumberAt(current_step))
                /\ current_step' = current_step
                /\ completed_steps' = completed_steps
                /\ warnings' = warnings]_vars
    /\ [](\A i, j \in DOMAIN completed_steps :
                completed_steps[i] = completed_steps[j] => i = j)

\* C5 witness: the first step is completed, the second is expected, and the
\* last observation matched the first step alone
C5_Witness ==
    /\ Len(instruction) = 2
    /\ current_step = 1
    /\ Len(action_history) >= 2
    /\ Scores(0, LastObserved)
    /\ ~Scores(1, LastObserved)
    /\ result[1].status = "in_progress"
    /\ result[1].current_step = Some(StepNumberAt(1))
    /\ completed_steps = <<StepNumberAt(0)>>

(***************************************************************************)
(* Claims about match_with_instruction, checked under SpecBatch.           *)
(***************************************************************************)
\* the reply has no line matching the pattern for the step at position i
NoLineFor(i) ==
    StepPatternSearch(llm_response, instruction[i].step_number) = None

\* the score of the action at position k against the step at position i
ScoreOf(i, k) ==
    _calculate_match_score(instruction[i].description,
                           detected_actions[k].description)

\* the action at position k has the maximum score against step i, and is
\* the earliest that has it
EarliestBest(i, k) ==
    /\ \A m \in DOMAIN detected_actions : ~FracGT(ScoreOf(i, m), ScoreOf(i, k))
    /\ \A m \in 1..(k - 1) : FracGT(ScoreOf(i, k), ScoreOf(i, m))

\* C6: for every ActionMatch returned by match_with_instruction, matched is
\* false if and only if detected_action is absent.  (Violated: a positive
\* verdict whose time range binds no action is returned matched.)
C6_NoOrphan ==
    pc = "returned" =>
        \A i \in DOMAIN matches :
            (matches[i].matched = FALSE) <=> (matches[i].detected_action = None)

\* C7: for every ActionMatch returned by match_with_instruction,
\* matched=false implies detected_action is absent, on the parsed-verdict
\* path and on the similarity-fallback path.
C7_UnmatchedHasNoAction ==
    pc = "returned" =>
        \A i \in DOMAIN matches :
            ~matches[i].matched => matches[i].detected_action = None

\* C7 witness: a run with actions to bind that returned one step unmatched
\* by a parsed negative verdict and one unmatched by the fallback, whose
\* best candidate scored above 0
C7_Witness ==
    /\ pc = "returned"
    /\ detected_actions # <<>>
    /\ \E i, j \in DOMAIN matches :
        /\ ~matches[i].matched /\ ~NoLineFor(i)
        /\ ~matches[j].matched /\ NoLineFor(j)
        /\ \E k \in DOMAIN detected_actions : ScoreOf(j, k)[1] > 0

\* C8: match_with_instruction returns exactly one ActionMatch per step, in
\* the order of instruction.steps, for any actions list and any model
\* reply.  (Violated: float() raises on a time range such as "..".)
C8_OnePerStep ==
    pc # "start" =>
        /\ pc = "returned"
        /\ Len(matches) = Len(instruction)
        /\ \A i \in DOMAIN instruction :
                matches[i].step_number = instruction[i].step_number

\* C9: no DetectedAction is bound as the detected_action of more than one
\* step's ActionMatch.  (Violated: every step is resolved on its own.)
C9_OneToOne ==
    pc = "returned" =>
        \A i, j \in DOMAIN matches :
            (/\ matches[i].detected_action # None
             /\ matches[i].detected_action = matches[j].detected_action)
                => i = j

\* C9 amended: every returned ActionMatch binds at most one action, and a
\* bound action is a member of detected_actions; two steps may be bound to
\* the same action.
C9_BindsListMembers ==
    pc = "returned" =>
        \A i \in DOMAIN matches :
            \/ matches[i].detected_action = None
            \/ \E k \in DOMAIN detected_actions :
                    matches[i].detected_action = Some(k)

\* C9 witness: two steps bound to the same detected action
C9_Witness ==
    /\ pc = "returned"
    /\ \E i, j \in DOMAIN matches :
        /\ i # j
        /\ matches[i].detected_action # None
        /\ matches[i].detected_action = matches[j].detected_action

\* C10: a step with no line matching the pattern is bound to the detected
\* action of maximum Jaccard score against its description (the earliest on
\* ties), matched exactly when that score is > 0.25; otherwise it is
\* unmatched, with the deviation text of line 333 and no detected action.
C10_SimilarityFallback ==
    pc = "returned" =>
        \A i \in DOMAIN instruction :
            NoLineFor(i) =>
                LET above == \E k \in DOMAIN detected_actions :
                                FracGT(ScoreOf(i, k), <<1, 4>>)
                IN  /\ matches[i].matched = above
                    /\ above =>
                        /\ \E k \in DOMAIN detected_actions :
                            /\ EarliestBest(i, k)
                            /\ matches[i].detected_action = Some(k)
                        /\ matches[i].deviation = None
                    /\ ~above =>
                        /\ matches[i].detected_action = None
                        /\ matches[i].deviation = Some(NotDetectedText)

\* C10 witness: a step without a line, two actions tied at its best score,
\* bound to the first; another step without a line left unmatched
C10_Witness ==
    /\ pc = "returned"
    /\ Len(detected_actions) = 2
    /\ \E i, j \in DOMAIN instruction :
        /\ NoLineFor(i)
        /\ FracEQ(ScoreOf(i, 1), ScoreOf(i, 2))
        /\ matches[i].matched
        /\ matches[i].detected_action = Some(1)
        /\ NoLineFor(j)
        /\ ~matches[j].matched
        /\ matches[j].deviation = Some(NotDetectedText)

(***************************************************************************)
(* Claims about analyze_video and _merge_similar_actions, checked under    *)
(* SpecVideo.                                                              *)
(***************************************************************************)
\* the scenario's detected actions
ScenarioActions ==
    <<DetectedAction(CleaningMold, 0, 15), DetectedAction(PouringMixture, 20, 40)>>

\* analyze_video returned on the scenario's checklist and actions, the reply
\* having no line that matches the pattern for either step
ScenarioAnalyzed ==
    /\ pc = "analyzed"
    /\ instruction = ScenarioSteps
    /\ detected_actions = ScenarioActions
    /\ \A i \in DOMAIN instruction : NoLineFor(i)

\* C11: for steps [1:'prepare mold', 2:'pour mixture'], detected actions
\* [(0,15,'cleaning and preparing the mold'), (20,40,'pouring mixture into
\* mold')] and a reply unparsable for both steps, the similarity fallback
\* matches step 1 to action 1 and step 2 to action 2, so missing_steps is
\* empty.  (Violated: the best scores are 1/5 and 1/5, not above 0.25.)
C11_FallbackScenario ==
    ScenarioAnalyzed =>
        /\ matches[1].matched /\ matches[1].detected_action = Some(1)
        /\ matches[2].matched /\ matches[2].detected_action = Some(2)
        /\ missing_steps = <<>>

\* C11 amended: in that scenario the similarity fallback leaves both steps
\* unmatched, with no detected action and the deviation text of line 333,
\* and missing_steps is [1, 2].
C11_ScenarioUnmatched ==
    ScenarioAnalyzed =>
        /\ \A i \in {1, 2} :
            /\ ~matches[i].matched
            /\ matches[i].detected_action = None
            /\ matches[i].deviation = Some(NotDetectedText)
        /\ matches[1].step_number = 1
        /\ matches[2].step_number = 2
        /\ missing_steps = <<1, 2>>

\* C11 witness: the scenario was analyzed on a reply with a line for each
\* step, neither of which matches the pattern; each step has a detected
\* action that shares a word with it
C11_Witness ==
    /\ ScenarioAnalyzed
    /\ llm_response # <<>>
    /\ frame_actions = ScenarioActions
    /\ ScoreOf(1, 2) = <<1, 5>> /\ ScoreOf(1, 1) = <<1, 6>>
    /\ ScoreOf(2, 2) = <<1, 5>>

(***************************************************************************)
(* Claims about the parsed reply, checked under SpecBatch.                 *)
(***************************************************************************)
\* the reply has the line of the given form for the step at position i
HasLine(i, form) ==
    LET line == ReplyLine(instruction[i].step_number, form)
    IN  \E p \in 1..(Len(llm_response) - Len(line) + 1) :
            SubSeq(llm_response, p, p + Len(line) - 1) = line

\* the groups of the pattern's match for the step at position i
LineMatch(i) == StepPatternSearch(llm_response, instruction[i].step_number)[1]

\* the line for the step at position i has a positive verdict and a time
\* range whose numbers float() accepts
HasParsedRange(i) ==
    /\ ~NoLineFor(i)
    /\ upper(LineMatch(i).group1) \in YesTokens
    /\ LineMatch(i).group2 # None
    /\ TimePatternSearch(LineMatch(i).group2[1]) # None
    /\ LET time_match == TimePatternSearch(LineMatch(i).group2[1])[1]
       IN  /\ FloatOk(time_match.group1)
           /\ time_match.group2 # None => FloatOk(time_match.group2[1])

\* the range the matcher parses from that line
ParsedRange(i) == TimeRange(TimePatternSearch(LineMatch(i).group2[1])[1])

\* C12: for a reply line in the prompted format 'Шаг N: DA - [a-b] -
\* comment' the parsed range is start=a, end=b; when the bracket holds a
\* single value v the range is the instant start=end=v.  (Violated: the
\* range group of the line pattern stops at the dash, so b is never read.)
C12_TimeRangeParsed ==
    pc = "returned" =>
        \A i \in DOMAIN instruction :
            /\ HasLine(i, 1) =>
                /\ HasParsedRange(i)
                /\ FracEQ(ParsedRange(i).start_time, <<50, 10>>)
                /\ FracEQ(ParsedRange(i).end_time, <<455, 10>>)
            /\ HasLine(i, 2) =>
                /\ HasParsedRange(i)
                /\ FracEQ(ParsedRange(i).start_time, <<45, 1>>)
                /\ FracEQ(ParsedRange(i).end_time, <<45, 1>>)

\* the overlap of the detected action at position k with [start, end]
OverlapOf(k, start, end) ==
    FracMax(Frac(0),
            FracSub(FracMin(Frac(detected_actions[k].timestamp_end), end),
                    FracMax(Frac(detected_actions[k].timestamp_start), start)))

\* the action at position k has the largest overlap with [start, end], and
\* is the earliest that has it
EarliestLargestOverlap(k, start, end) ==
    /\ \A m \in DOMAIN detected_actions :
            ~FracGT(OverlapOf(m, start, end), OverlapOf(k, start, end))
    /\ \A m \in 1..(k - 1) :
            FracGT(OverlapOf(k, start, end), OverlapOf(m, start, end))

\* C13: when a step's verdict is yes with a range start < end (the line
\* 'Шаг N: DA - [5.0с-45.5с] - ok': start 5.0, end 45.5) and at least one
\* detected action has positive overlap with [start, end], the bound action
\* is the one with the largest overlap, the earliest in input order among
\* equal overlaps.  (Violated: the range is parsed as the instant 5.0, see
\* C12, and the action that contains the instant is bound.)
C13_LargestOverlapWins ==
    pc = "returned" =>
        \A i \in DOMAIN instruction :
            (/\ HasLine(i, 1)
             /\ \E k \in DOMAIN detected_actions :
                    FracGT(OverlapOf(k, <<50, 10>>, <<455, 10>>), Frac(0))) =>
                \E k \in DOMAIN detected_actions :
                    /\ EarliestLargestOverlap(k, <<50, 10>>, <<455, 10>>)
                    /\ matches[i].detected_action = Some(k)

\* the detected actions whose interval contains the instant t
Containing(t) ==
    {k \in DOMAIN detected_actions :
        /\ FracLE(Frac(detected_actions[k].timestamp_start), t)
        /\ FracLE(t, Frac(detected_actions[k].timestamp_end))}

\* min(|action.start - start|, |action.end - end|) of the action at k
DistanceOf(k, start, end) ==
    FracMin(FracAbs(FracSub(Frac(detected_actions[k].timestamp_start), start)),
            FracAbs(FracSub(Frac(detected_actions[k].timestamp_end), end)))

\* the action at position k has the least distance, and is the earliest
\* that has it
EarliestNearest(k, start, end) ==
    /\ \A m \in DOMAIN detected_actions :
            FracLE(DistanceOf(k, start, end), DistanceOf(m, start, end))
    /\ \A m \in 1..(k - 1) :
            FracLT(DistanceOf(k, start, end), DistanceOf(m, start, end))

\* the line for the step at position i has a positive verdict and states a
\* time range: forms 1 and 8 a range of two values, form 2 a single value
HasStatedRange(i) == HasLine(i, 1) \/ HasLine(i, 2) \/ HasLine(i, 8)

\* the range that line states: [5.0с-45.5с], [45] or [70.0с-100.0с]
StatedRange(i) ==
    IF HasLine(i, 1)
    THEN [start_time |-> <<50, 10>>, end_time |-> <<455, 10>>]
    ELSE IF HasLine(i, 8)
         THEN [start_time |-> Frac(70), end_time |-> Frac(100)]
         ELSE [start_time |-> Frac(45), end_time |-> Frac(45)]

\* C14: when the parsed verdict is yes and no action has positive overlap
\* with the range the reply states (or the range is a single instant), an
\* action whose interval contains the range start is bound outright (the
\* earliest such action); if none contains it, the action minimizing
\* min(|action.start - range.start|, |action.end - range.end|) is bound, but
\* only if that distance is < 30 seconds; if no action is within 30 seconds,
\* no action is bound.  (Violated: on 'Шаг N: DA - [70.0с-100.0с] - ok' with
\* a detected action over 40..60 the distance is min(30, 40) = 30 and no
\* action is to be bound, but the range is parsed as the instant 70.0, see
\* C12, the distance becomes min(30, 10) = 10 and the action is bound.  On
\* the single value '[45]' the three cases hold.)
C14_InstantResolution ==
    pc = "returned" =>
        \A i \in DOMAIN instruction :
            HasStatedRange(i) =>
                LET start == StatedRange(i).start_time
                    end == StatedRange(i).end_time
                    within == {k \in DOMAIN detected_actions :
                                FracLT(DistanceOf(k, start, end), Frac(30))}
                IN  (\/ FracEQ(start, end)
                     \/ \A k \in DOMAIN detected_actions :
                            FracEQ(OverlapOf(k, start, end), Frac(0))) =>
                        /\ matches[i].matched
                        /\ Containing(start) # {} =>
                            matches[i].detected_action =
                                Some(SetMin(Containing(start)))
                        /\ (Containing(start) = {} /\ within # {}) =>
                            \E k \in within :
                                /\ EarliestNearest(k, start, end)
                                /\ matches[i].detected_action = Some(k)
                        /\ (Containing(start) = {} /\ within = {}) =>
                            matches[i].detected_action = None

\* the trailing comment of the negative lines (forms 3 and 7): "no"
NegativeComment == <<"n", "o">>

\* C15: when the reply line for a step parses with a no-token, the step's
\* ActionMatch has matched=false, no detected action, and deviation equal
\* to the line's trailing comment when one is present.  (Violated: on
\* 'Шаг N: NET - [5.0с-45.5с] - no' the deviation is '45.5с] - no', the
\* range group stopping at the dash as in C12.)
C15_NegativeVerdict ==
    pc = "returned" =>
        \A i \in DOMAIN instruction :
            (HasLine(i, 3) \/ HasLine(i, 7)) =>
                /\ ~NoLineFor(i)
                /\ upper(LineMatch(i).group1) \notin YesTokens
                /\ ~matches[i].matched
                /\ matches[i].detected_action = None
                /\ matches[i].deviation = Some(NegativeComment)

\* the line for the step at position i is absent, has no verdict token, or
\* has a time range that holds no number
AbsentOrMalformed(i) == NoLineFor(i) \/ HasLine(i, 4)

\* C16: for any model reply text, match_with_instruction returns an
\* ActionMatch for every step without raising, and a step whose line is
\* absent or malformed (including a malformed time range) is resolved by the
\* similarity fallback.  (Violated: float() raises ValueError on the time
\* range '..'.)
C16_ParseFailureHandled ==
    pc # "start" =>
        /\ pc # "raised"
        /\ DOMAIN matches = DOMAIN instruction
        /\ \A i \in DOMAIN instruction :
            AbsentOrMalformed(i) =>
                matches[i] = SimilarityFallback(instruction[i],
                                                detected_actions).match

(***************************************************************************)
(* Claims about _merge_similar_actions, checked under SpecVideo.           *)
(***************************************************************************)
\* analyze_video_sequence has returned the merged list
Merged == pc \in {"detected", "analyzed", "raised"}

\* the example: (0,5,'mixing'), (6,10,'mixing water'), (40,45,'mixing')
MergeExample ==
    <<DetectedAction(Mixing, 0, 5), DetectedAction(MixingWater, 6, 10),
      DetectedAction(Mixing, 40, 45)>>

\* the example with 'MIXING' as the second description
MergeExampleSimilar ==
    <<DetectedAction(Mixing, 0, 5), DetectedAction(upper(Mixing), 6, 10),
      DetectedAction(Mixing, 40, 45)>>

\* (0,10,'mixing'), (40,45,'mixing')
MergeExampleOutput ==
    <<DetectedAction(Mixing, 0, 10), DetectedAction(Mixing, 40, 45)>>

\* C18: for input actions [(0,5,'mixing'), (6,10,'mixing water'),
\* (40,45,'mixing')] _merge_similar_actions produces exactly two intervals,
\* (0,10,'mixing') and (40,45,'mixing').  (Violated: 'mixing' and 'mixing
\* water' score exactly 0.5, which is not above 0.5.)
C18_MergeExample ==
    (Merged /\ frame_actions = MergeExample) =>
        detected_actions = MergeExampleOutput

\* C18 amended: on that input the merger returns the three intervals
\* unchanged; on the same intervals with a second description that scores
\* above 0.5 against 'mixing' ('MIXING') it produces exactly the two
\* intervals (0,10,'mixing') and (40,45,'mixing').
C18_MergeExampleAtHalf ==
    /\ (Merged /\ frame_actions = MergeExample) =>
            detected_actions = MergeExample
    /\ (Merged /\ frame_actions = MergeExampleSimilar) =>
            detected_actions = MergeExampleOutput

\* C18 witness: the example was merged, the first two descriptions scoring
\* exactly one half and their gap being one second
C18_Witness ==
    /\ pc = "detected"
    /\ frame_actions = MergeExample
    /\ _calculate_match_score(frame_actions[1].description,
                              frame_actions[2].description) = <<1, 2>>
    /\ Len(detected_actions) = 3

\* the open interval after the first k actions of frame_actions were walked:
\* the action that opened it, ending where the action at k ends
RECURSIVE CurrentAt(_)
\* the action at position k is absorbed into the open interval
AbsorbedAt(k) ==
    /\ k >= 2
    /\ frame_actions[k].timestamp_start - CurrentAt(k - 1).timestamp_end < 10
    /\ FracGT(_calculate_match_score(CurrentAt(k - 1).description,
                                     frame_actions[k].description), <<5, 10>>)
CurrentAt(k) ==
    IF AbsorbedAt(k)
    THEN [CurrentAt(k - 1) EXCEPT !.timestamp_end = frame_actions[k].timestamp_end]
    ELSE frame_actions[k]

\* the positions at which the open interval is closed: the next action is
\* not absorbed, or there is none
ClosedAt ==
    {k \in DOMAIN frame_actions :
        k = Len(frame_actions) \/ ~AbsorbedAt(k + 1)}

\* the j-th position of ClosedAt
NthClosed(j) ==
    CHOOSE k \in ClosedAt : Cardinality({m \in ClosedAt : m <= k}) = j

\* C19: walking the input once, an action is absorbed into the current
\* interval exactly when (action.timestamp_start - current.timestamp_end)
\* < 10 and the Jaccard score of the current interval's description and the
\* action's description is > 0.5, in which case only current.timestamp_end
\* is set to action.timestamp_end and the interval keeps the first action's
\* description; otherwise the current interval is closed and the action
\* opens a new one.
C19_MergeRule ==
    Merged =>
        /\ Len(detected_actions) = Cardinality(ClosedAt)
        /\ \A j \in DOMAIN detected_actions :
                detected_actions[j] = CurrentAt(NthClosed(j))

\* C19 witness: three actions with similar descriptions; the second was
\* absorbed into the first, one second after it, and kept the first one's
\* description; the third, exactly 10 seconds later, opened a new interval
C19_Witness ==
    /\ Merged
    /\ Len(frame_actions) = 3
    /\ frame_actions[1].description # frame_actions[2].description
    /\ AbsorbedAt(2)
    /\ frame_actions[3].timestamp_start - frame_actions[2].timestamp_end = 10
    /\ _are_similar_descriptions(frame_actions[1].description,
                                 frame_actions[3].description)
    /\ Len(detected_actions) = 2
    /\ detected_actions[1].description = frame_actions[1].description
    /\ detected_actions[1].timestamp_end = frame_actions[2].timestamp_end

(***************************************************************************)
(* Claims about _calculate_match_score, checked under SpecScore.           *)
(***************************************************************************)
\* the text has a character that is not whitespace
HasToken(text) == \E i \in DOMAIN text : ~IsSpace(text[i])

\* the score returned equals the score of the arguments in the other order
ScoreSymmetric ==
    FracEQ(returned_score[1],
           _calculate_match_score(arg_action_desc, arg_instruction_desc))

\* C20: score(a,b) == score(b,a) for all text pairs, and score(a,a) == 1.0
\* for every non-empty text a.  (Violated: a text of whitespace only has no
\* token and scores 0.0 against itself.)
C20_SymmetricReflexive ==
    pc = "scored" =>
        /\ ScoreSymmetric
        /\ (arg_instruction_desc = arg_action_desc
                /\ arg_instruction_desc # <<>>) =>
                    FracEQ(returned_score[1], <<1, 1>>)

\* C20 amended: score(a,b) == score(b,a) for all text pairs; score(a,a) is
\* 1.0 for every text a that has a token (a character that is not
\* whitespace) and 0.0 for every other text.
C20_SymmetricReflexiveOnTokens ==
    pc = "scored" =>
        /\ ScoreSymmetric
        /\ arg_instruction_desc = arg_action_desc =>
            IF HasToken(arg_instruction_desc)
            THEN FracEQ(returned_score[1], <<1, 1>>)
            ELSE FracEQ(returned_score[1], <<0, 1>>)

\* C20 witness: two different texts with different numbers of words were
\* scored strictly between 0 and 1
C20_Witness ==
    /\ pc = "scored"
    /\ Len(split(arg_instruction_desc)) = 1
    /\ Len(split(arg_action_desc)) = 2
    /\ FracGT(returned_score[1], <<0, 1>>)
    /\ FracGT(<<1, 1>>, returned_score[1])

\* the maximal runs of non-whitespace characters of the text, each with its
\* letters lower-cased, as a set
TokenSet(text) ==
    {[k \in 1..(j - i + 1) |-> LowerChar(text[i + k - 1])] :
        <<i, j>> \in {ij \in (DOMAIN text) \X (DOMAIN text) :
            /\ ij[1] <= ij[2]
            /\ \A k \in ij[1]..ij[2] : ~IsSpace(text[k])
            /\ ij[1] = 1 \/ IsSpace(text[ij[1] - 1])
            /\ ij[2] = Len(text) \/ IsSpace(text[ij[2] + 1])}}

\* C21: _calculate_match_score(a,b) equals the Jaccard ratio
\* |A \cap B| / |A \cup B| of the lower-cased whitespace-token sets of a and
\* b (case-insensitive, duplicates collapsed), is 0.0 when either token set
\* is empty, and always lies in [0,1].
C21_JaccardScore ==
    pc = "scored" =>
        LET A == TokenSet(arg_instruction_desc)
            B == TokenSet(arg_action_desc)
            s == returned_score[1]
        IN  /\ s[2] > 0
            /\ 0 <= s[1]
            /\ s[1] <= s[2]
            /\ IF A = {} \/ B = {}
               THEN FracEQ(s, <<0, 1>>)
               ELSE FracEQ(s, <<Cardinality(A \cap B), Cardinality(A \cup B)>>)

\* C21 witness: "A" was scored against "a  b\n" and the score is 1/2: the
\* case is folded, the whitespace runs separate two tokens
C21_Witness ==
    /\ pc = "scored"
    /\ arg_instruction_desc = <<"A">>
    /\ arg_action_desc = <<"a", " ", " ", "b", "\n">>
    /\ FracEQ(returned_score[1], <<1, 2>>)

(***************************************************************************)
(* Further claims about LiveAnalyzer, checked under SpecLive.              *)
(***************************************************************************)
\* C22: monotonic progress of the live tracker: for all sequences of
\* analyze_frame calls, completed_steps is strictly increasing in length
\* from call to call.  (Violated: a call that reports in_progress, warning
\* or completed leaves completed_steps as it was.)
C22_StrictlyLonger ==
    [][Called => Len(completed_steps') > Len(completed_steps)]_vars

\* C22 amended: completed_steps never shrinks from call to call: every
\* analyze_frame call keeps the entries already there and appends at most
\* one step number, exactly one when the call reports step_completed and
\* none when it reports in_progress, warning or completed.
C22_NeverShorter ==
    [][IF Called
       THEN /\ Len(completed_steps') >= Len(completed_steps)
            /\ Len(completed_steps') <= Len(completed_steps) + 1
            /\ SubSeq(completed_steps', 1, Len(completed_steps))
                    = completed_steps
            /\ Len(completed_steps') = Len(completed_steps) + 1
                    <=> result'[1].status = "step_completed"
       ELSE completed_steps' = completed_steps]_vars

\* C22 witness: after a step was completed, a later call reported
\* in_progress and left the one completed step as it was
C22_Witness ==
    /\ pc = "live"
    /\ Len(action_history) = 2
    /\ Len(completed_steps) = 1
    /\ result # None
    /\ result[1].status = "in_progress"

\* the checklist's steps are ordered by ascending unique step_number
AscendingSteps ==
    \A i, j \in DOMAIN instruction :
        i < j => instruction[i].step_number < instruction[j].step_number

\* C23: in every reachable state of LiveAnalyzer, for an Instruction whose
\* steps are ordered by ascending unique step_number, completed_steps is a
\* strictly increasing sequence of step numbers (each appended number is
\* greater than all earlier ones).
C23_CompletedAscending ==
    (pc = "live" /\ AscendingSteps) =>
        \A i, j \in DOMAIN completed_steps :
            i < j => completed_steps[i] < completed_steps[j]

\* C23 witness: both steps of an ascending checklist whose numbers are not
\* consecutive are completed, after a warning for the later step
C23_Witness ==
    /\ pc = "live"
    /\ AscendingSteps
    /\ Len(instruction) = 2
    /\ completed_steps = <<1, 4>>
    /\ Len(warnings) = 1

\* C30: in every reachable state of LiveAnalyzer, len(completed_steps) ==
\* current_step and completed_steps equals the step numbers of
\* instruction.steps[0 .. current_step-1] in checklist order (steps complete
\* only as a contiguous prefix; none is skipped).
C30_CompletedIsPrefix ==
    pc = "live" =>
        /\ Len(completed_steps) = current_step
        /\ current_step <= Len(instruction)
        /\ completed_steps =
                [i \in 1..current_step |-> instruction[i].step_number]

\* C30 witness: the two steps of a descending checklist are completed, in
\* checklist order, one call having completed nothing
C30_Witness ==
    /\ pc = "live"
    /\ Len(instruction) = 2
    /\ instruction[1].step_number > instruction[2].step_number
    /\ current_step = 2
    /\ Len(completed_steps) = 2
    /\ Len(action_history) = 3

(***************************************************************************)
(* Further claims about analyze_video, checked under SpecVideo.            *)
(***************************************************************************)
\* references of the detected actions that some ActionMatch binds
BoundActions ==
    {k \in DOMAIN detected_actions :
        \E i \in DOMAIN matches : matches[i].detected_action = Some(k)}

\* C27: in the batch result, extra_actions is exactly the detected actions
\* not claimed by any match: every detected action is either the
\* detected_action of some ActionMatch or a member of extra_actions, never
\* both, and extra_actions keeps detection order.
C27_ExtraActions ==
    pc = "analyzed" =>
        /\ \A k \in DOMAIN detected_actions :
                (k \in BoundActions) #
                    (\E j \in DOMAIN extra_actions : extra_actions[j] = k)
        /\ \A j \in DOMAIN extra_actions :
                extra_actions[j] \in DOMAIN detected_actions
        /\ \A i, j \in DOMAIN extra_actions :
                i < j => extra_actions[i] < extra_actions[j]

\* C27 witness: of three detected actions one is bound by a match and the
\* other two are the extra actions
C27_Witness ==
    /\ pc = "analyzed"
    /\ Len(detected_actions) = 3
    /\ Cardinality(BoundActions) = 1
    /\ Len(extra_actions) = 2

(***************************************************************************)
(* analyze_webcam.main (src/analyze_webcam.py:14-156): the checklist is    *)
(* loaded from a JSON document, then every frame of the camera is offered  *)
(* to the tracker until the camera stops, 'q' is pressed or the vision     *)
(* model fails.                                                            *)
(***************************************************************************)
\* --interval, its default (src/analyze_webcam.py:41-46)
AnalysisInterval == 5

\* Instruction(**instruction_data) validates (src/models.py:9-26): the
\* fields are typed and step_number is required; nothing else is checked
Validates(data) == \A i \in DOMAIN data : data[i].step_number # None

\* the steps of Instruction(**instruction_data)
InstructionOf(data) ==
    [i \in DOMAIN data |->
        InstructionStep(data[i].step_number[1], data[i].description)]

\* lines 61-81: the document is loaded and the tracker constructed on it; a
\* document that does not validate raises out of main
load_instruction ==
    /\ pc = "load"
    /\ IF Validates(instruction_data)
       THEN /\ instruction' = InstructionOf(instruction_data)
            /\ pc' = "frame"
       ELSE /\ pc' = "rejected"
            /\ UNCHANGED instruction
    /\ UNCHANGED <<liveVars, batchVars, videoVars, scoreVars, squatVars, webcamVars,
                   recorderVars>>

\* lines 91-95 with WebcamProcessor.get_frame (src/webcam_processor.py:63-86):
\* a frame and its timestamp
get_frame(timestamp) ==
    /\ pc = "frame"
    /\ timestamp >= frame_time
    /\ frame_time' = timestamp
    /\ pc' = "check"
    /\ UNCHANGED <<instruction, instruction_data>>
    /\ UNCHANGED <<liveVars, batchVars, videoVars, scoreVars, squatVars, recorderVars>>

\* lines 91-93: get_frame returns None and the loop ends
get_frame_none ==
    /\ pc = "frame"
    /\ pc' = "summary"
    /\ UNCHANGED <<instruction, liveVars, batchVars, videoVars, scoreVars, squatVars,
                   webcamVars, recorderVars>>

\* mutant: should_analyze stamps the time of the frame it accepts
call_should_analyze_stamps ==
    /\ pc = "check"
    /\ pc' = IF should_analyze(frame_time, AnalysisInterval)
             THEN "analyze" ELSE "key"
    /\ last_analysis_time' =
            IF should_analyze(frame_time, AnalysisInterval)
            THEN frame_time ELSE last_analysis_time
    /\ UNCHANGED <<current_step, completed_steps, current_action, warnings,
                   action_history, result, calls>>
    /\ UNCHANGED <<instruction, batchVars, videoVars, scoreVars, squatVars, webcamVars,
                   recorderVars>>

\* line 98: should_analyze(timestamp) is called on the frame's timestamp
call_should_analyze ==
    /\ pc = "check"
    /\ pc' = IF should_analyze(frame_time, AnalysisInterval)
             THEN "analyze" ELSE "key"
    /\ UNCHANGED <<instruction, liveVars, batchVars, videoVars, scoreVars, squatVars,
                   webcamVars, recorderVars>>

\* mutant: the observation is recorded before the model is asked
analyze_frame_raises_recorded(timestamp) ==
    /\ pc = "analyze"
    /\ pc' = "failed"
    /\ current_action' = Some(DetectedAction(<<>>, timestamp, timestamp))
    /\ action_history' = Append(action_history, current_action'[1])
    /\ UNCHANGED <<current_step, completed_steps, last_analysis_time,
                   warnings, result, calls>>
    /\ UNCHANGED <<instruction, batchVars, videoVars, scoreVars, squatVars, webcamVars,
                   recorderVars>>

\* LiveAnalyzer.analyze_frame(frame, timestamp) when the model call of line
\* 64 raises: no line after it runs, main logs and re-raises (lines 147-149)
analyze_frame_raises(timestamp) ==
    /\ pc = "analyze"
    /\ pc' = "failed"
    /\ UNCHANGED <<instruction, liveVars, batchVars, videoVars, scoreVars, squatVars,
                   webcamVars, recorderVars>>

\* lines 138-140: cv2.waitKey, 'q' ends the loop
wait_key(quit) ==
    /\ pc = "key"
    /\ pc' = IF quit THEN "summary" ELSE "frame"
    /\ UNCHANGED <<instruction, liveVars, batchVars, videoVars, scoreVars, squatVars,
                   webcamVars, recorderVars>>

\* LiveAnalyzer.get_summary (src/live_analyzer.py:205-230): the counts and
\* lines of the text it builds
get_summary ==
    [completed |-> <<Len(completed_steps), Len(instruction)>>,
     steps |-> [i \in DOMAIN instruction |->
                    [done |-> instruction[i].step_number \in set(completed_steps),
                     step_number |-> instruction[i].step_number,
                     description |-> instruction[i].description]],
     warnings |-> warnings,
     actions |-> Len(action_history)]

\* line 143: the summary is printed once the loop has ended
print_summary ==
    /\ pc = "summary"
    /\ pc' = "done"
    /\ UNCHANGED <<instruction, liveVars, batchVars, videoVars, scoreVars, squatVars,
                   webcamVars, recorderVars>>

\* the steps a JSON document may list: "a b" as step 1, "c d" as step 1, 2
\* or -1, and a step without step_number
DocumentSteps ==
    {[step_number |-> Some(1), description |-> <<"a", " ", "b">>],
     [step_number |-> Some(1), description |-> <<"c", " ", "d">>],
     [step_number |-> Some(2), description |-> <<"c", " ", "d">>],
     [step_number |-> Some(-1), description |-> <<"c", " ", "d">>],
     [step_number |-> None, description |-> <<"a", " ", "b">>]}

Documents == UNION {[1..n -> DocumentSteps] : n \in 0..MaxSteps}

\* what the vision model describes: "A b", "c  d\n", "a x y"
WebcamTexts ==
    {<<"A", " ", "b">>, <<"c", " ", " ", "d", "\n">>,
     <<"a", " ", "x", " ", "y">>}

\* time.time() - start_time of the frames (src/webcam_processor.py:79)
FrameTimes == {0, 4, 5, 9, 10, 15}

InitWebcam ==
    /\ instruction_data \in Documents
    /\ frame_time = 0
    /\ pc = "load"
    /\ instruction = <<>>
    /\ current_step = 0
    /\ completed_steps = <<>>
    /\ last_analysis_time = 0
    /\ current_action = None
    /\ warnings = <<>>
    /\ action_history = <<>>
    /\ result = None
    /\ calls = 0
    /\ detected_actions = <<>>
    /\ llm_response = <<>>
    /\ matches = <<>>
    /\ frame_actions = <<>>
    /\ missing_steps = <<>>
    /\ extra_actions = <<>>
    /\ summary = None
    /\ arg_instruction_desc = <<>>
    /\ arg_action_desc = <<>>
    /\ returned_score = None
    /\ returned_similar = None
    /\ NoSquatRun
    /\ NoRecorderRun

NextWebcam ==
    \/ load_instruction
    \/ \E timestamp \in FrameTimes : get_frame(timestamp)
    \/ get_frame_none
    \/ call_should_analyze
    \/ \E description \in WebcamTexts : analyze_frame(description, frame_time)
    \/ analyze_frame_raises(frame_time)
    \/ \E quit \in BOOLEAN : wait_key(quit)
    \/ print_summary

SpecWebcam == InitWebcam /\ [][NextWebcam]_vars

(***************************************************************************)
(* Claims about the webcam session, checked under SpecWebcam.              *)
(***************************************************************************)
\* the document lists no step, a step number twice or a negative one
Malformed(data) ==
    \/ data = <<>>
    \/ \E i \in DOMAIN data :
            data[i].step_number # None /\ data[i].step_number[1] < 0
    \/ \E i, j \in DOMAIN data :
            /\ i < j
            /\ data[i].step_number # None
            /\ data[i].step_number = data[j].step_number

\* C28: a malformed instruction (duplicate or negative step numbers, or an
\* empty steps list) is rejected when it is loaded, before the live tracker
\* or the batch matcher ever operates on it.  (Violated: the data model
\* checks the types of the fields only.)
C28_MalformedRejected ==
    Malformed(instruction_data) => pc \in {"load", "rejected"} /\ calls = 0

\* the step is an analyze_frame call the model replied to
Replied == calls' = calls + 1

\* C24: every analyze_frame call for which the model returns a description
\* appends exactly one DetectedAction to action_history and makes it
\* current_action, including calls made after the terminal COMPLETED state,
\* and no operation removes or reorders history entries, so
\* len(action_history) equals the number of such calls.
C24_HistoryAppendOnly ==
    [][/\ IF Replied
          THEN /\ current_action' # None
               /\ action_history' = Append(action_history, current_action'[1])
               /\ current_action'[1].timestamp_start = frame_time
          ELSE /\ action_history' = action_history
               /\ current_action' = current_action
       /\ Len(action_history') = calls']_vars

\* C24 witness: the checklist was complete when a frame was analysed, and
\* that call too was recorded
C24_Witness ==
    /\ calls = 2
    /\ Len(action_history) = 2
    /\ Len(instruction) = 1
    /\ current_step = 1
    /\ result # None
    /\ result[1].status = "completed"
    /\ current_action = Some(action_history[2])

\* the fields of the tracker
TrackerFields ==
    <<current_step, completed_steps, last_analysis_time, current_action,
      warnings, action_history>>

\* C25: should_analyze is pure: calling it any number of times changes no
\* tracker field (in particular not last_analysis_time); last_analysis_time
\* changes only in analyze_frame, which sets it to the call's timestamp
\* after the compliance check.
C25_ShouldAnalyzePure ==
    [][/\ pc = "check" => /\ TrackerFields' = TrackerFields
                          /\ pc' = IF frame_time - last_analysis_time
                                        >= AnalysisInterval
                                   THEN "analyze" ELSE "key"
       /\ last_analysis_time' # last_analysis_time =>
            /\ pc = "analyze"
            /\ Replied
            /\ result' # None
            /\ last_analysis_time' = frame_time]_vars

\* C25 witness: after one analysis should_analyze was called on a later
\* frame and declined it; last_analysis_time is still the time of the
\* analysis
C25_Witness ==
    /\ pc = "key"
    /\ calls = 1
    /\ last_analysis_time = 5
    /\ frame_time = 9
    /\ action_history[1].timestamp_start = 5

\* C26: if the external model call fails (raises) inside
\* LiveAnalyzer.analyze_frame, the tracker state is exactly as before that
\* call (current_step, completed_steps, warnings, action_history,
\* current_action and last_analysis_time are all unchanged), so get_summary
\* still reports the state accumulated up to that point.
C26_FailureKeepsState ==
    [][pc' = "failed" =>
            /\ pc = "analyze"
            /\ TrackerFields' = TrackerFields
            /\ get_summary' = get_summary
            /\ get_summary'.completed[1] = Len(completed_steps)
            /\ get_summary'.actions = calls]_vars

\* C26 witness: the model failed on the third frame analysed, after one
\* step was completed and one warning given; the summary reports them
C26_Witness ==
    /\ pc = "failed"
    /\ calls = 2
    /\ get_summary.completed = <<1, 2>>
    /\ Len(get_summary.warnings) = 1
    /\ get_summary.actions = 2
    /\ get_summary.steps[1].done
    /\ ~get_summary.steps[2].done

(***************************************************************************)
(* record_webcam.main (src/record_webcam.py:113-200) on a WebcamRecorder   *)
(* (src/webcam_recorder.py): frames are read, written and shown until the  *)
(* camera stops, the duration is reached or 'q' is pressed.                *)
(***************************************************************************)
\* WebcamRecorder.start_recording (src/webcam_recorder.py:45-88), called at
\* line 122 of main; opened: the camera and the output file could be opened
start_recording(opened) ==
    /\ pc = "rec_start"
    /\ IF opened
       THEN /\ is_recording' = TRUE
            /\ frame_count' = 0
            /\ pc' = "rec_frame"
       ELSE /\ pc' = "rec_failed"
            /\ UNCHANGED <<is_recording, frame_count>>
    /\ UNCHANGED <<written_frames, paused, rec_timestamp, args_duration>>
    /\ UNCHANGED <<instruction, liveVars, batchVars, videoVars, scoreVars, squatVars,
                   webcamVars>>

\* lines 130-141 of main with WebcamRecorder.get_frame_for_display
\* (src/webcam_recorder.py:110-131): a frame is read, written to the file and
\* counted; ret: cap.read() delivered a frame; timestamp: its time
get_frame_for_display(ret, timestamp) ==
    /\ pc = "rec_frame"
    /\ frame_count < MaxRecorded
    /\ timestamp >= rec_timestamp
    /\ IF ~is_recording \/ ~ret
       THEN /\ pc' = "rec_stop"
            /\ UNCHANGED <<written_frames, frame_count, rec_timestamp>>
       ELSE /\ written_frames' = written_frames + 1
            /\ frame_count' = frame_count + 1
            /\ rec_timestamp' = timestamp
            /\ pc' = IF /\ args_duration # None
                        /\ args_duration[1] # 0
                        /\ timestamp >= args_duration[1]
                     THEN "rec_stop" ELSE "rec_key"
    /\ UNCHANGED <<is_recording, paused, args_duration>>
    /\ UNCHANGED <<instruction, liveVars, batchVars, videoVars, scoreVars, squatVars,
                   webcamVars>>

\* WebcamRecorder.record_frame (src/webcam_recorder.py:90-108), the public
\* method that reads, writes and counts one frame without showing it; main
\* does not call it, any other holder of the recorder may at any time; ret:
\* cap.read() delivered a frame.  It returns False and changes nothing when
\* the recorder is not recording or no frame was read.
record_frame(ret) ==
    /\ frame_count < MaxRecorded
    /\ IF is_recording /\ ret
       THEN /\ written_frames' = written_frames + 1
            /\ frame_count' = frame_count + 1
       ELSE UNCHANGED <<written_frames, frame_count>>
    /\ UNCHANGED <<is_recording, paused, rec_timestamp, args_duration, pc>>
    /\ UNCHANGED <<instruction, liveVars, batchVars, videoVars, scoreVars, squatVars,
                   webcamVars>>

\* the keys cv2.waitKey may report: 'q', SPACE, anything else or none
Keys == {"q", " ", "x"}

\* lines 187-197 of main: the key pressed while the frame was shown
record_wait_key(key) ==
    /\ pc = "rec_key"
    /\ IF key = "q"
       THEN pc' = "rec_stop" /\ UNCHANGED paused
       ELSE IF key = " "
       THEN pc' = "rec_frame" /\ paused' = ~paused
       ELSE pc' = "rec_frame" /\ UNCHANGED paused
    /\ UNCHANGED <<is_recording, frame_count, written_frames, rec_timestamp,
                   args_duration>>
    /\ UNCHANGED <<instruction, liveVars, batchVars, videoVars, scoreVars, squatVars,
                   webcamVars>>

\* WebcamRecorder.stop_recording (src/webcam_recorder.py:150-176), called at
\* line 200 of main
stop_recording ==
    /\ pc = "rec_stop"
    /\ is_recording' = FALSE
    /\ pc' = "rec_done"
    /\ UNCHANGED <<frame_count, written_frames, paused, rec_timestamp,
                   args_duration>>
    /\ UNCHANGED <<instruction, liveVars, batchVars, videoVars, scoreVars, squatVars,
                   webcamVars>>

\* --duration: not given, 0, 2 or 3 seconds
Durations == {None, Some(0), Some(2), Some(3)}

\* time.time() - start_time of the frames read, in whole seconds
RecordTimes == 0..4

InitRecorder ==
    /\ args_duration \in Durations
    /\ is_recording = FALSE
    /\ frame_count = 0
    /\ written_frames = 0
    /\ paused = FALSE
    /\ rec_timestamp = 0
    /\ pc = "rec_start"
    /\ instruction = <<>>
    /\ current_step = 0
    /\ completed_steps = <<>>
    /\ last_analysis_time = 0
    /\ current_action = None
    /\ warnings = <<>>
    /\ action_history = <<>>
    /\ result = None
    /\ calls = 0
    /\ detected_actions = <<>>
    /\ llm_response = <<>>
    /\ matches = <<>>
    /\ frame_actions = <<>>
    /\ missing_steps = <<>>
    /\ extra_actions = <<>>
    /\ summary = None
    /\ arg_instruction_desc = <<>>
    /\ arg_action_desc = <<>>
    /\ returned_score = None
    /\ returned_similar = None
    /\ NoSquatRun
    /\ NoWebcamRun

NextRecorder ==
    \/ \E opened \in BOOLEAN : start_recording(opened)
    \/ \E ret \in BOOLEAN, timestamp \in RecordTimes :
            get_frame_for_display(ret, timestamp)
    \/ \E ret \in BOOLEAN : record_frame(ret)
    \/ \E key \in Keys : record_wait_key(key)
    \/ stop_recording

SpecRecorder == InitRecorder /\ [][NextRecorder]_vars

(***************************************************************************)
(* Claims about the recording session, checked under SpecRecorder.         *)
(***************************************************************************)
\* C29: recording CLI pause: SPACE toggles pause/continue; while paused, no
\* frames are written to the output file and the recorder's frame_count
\* does not grow; after SPACE is pressed again writing resumes.  (Violated:
\* paused only changes the label drawn on the preview.)
C29_PauseStopsWriting ==
    [][paused => /\ written_frames' = written_frames
                 /\ frame_count' = frame_count]_vars

(***************************************************************************)
(* Claims about the pace of the live tracker, checked under SpecLive.      *)
(***************************************************************************)
\* C31: each analyze_frame call advances current_step by at most one: an
\* observation that scores > 0.3 against the expected step and also against
\* the following steps completes only the expected step, so reaching
\* COMPLETED takes at least len(steps) analyze_frame calls.
C31_OneStepPerCall ==
    /\ [][Called =>
            /\ current_step' <= current_step + 1
            /\ (/\ current_step < Len(instruction)
                /\ \A j \in current_step..(Len(instruction) - 1) :
                        Scores(j, Observed)) =>
                    /\ current_step' = current_step + 1
                    /\ completed_steps' =
                         Append(completed_steps, StepNumberAt(current_step))
                    /\ warnings' = warnings]_vars
    /\ [](current_step <= Len(action_history))

\* C31 witness: the first observation scored > 0.3 against both steps of the
\* checklist and completed the first step only
C31_Witness ==
    /\ pc = "live"
    /\ Len(instruction) = 2
    /\ Len(action_history) = 1
    /\ Scores(0, LastObserved)
    /\ Scores(1, LastObserved)
    /\ current_step = 1
    /\ completed_steps = <<StepNumberAt(0)>>

\* the dict returned carries the 'completed' flag the webcam loop checks
\* (src/analyze_webcam.py:111, result.get('completed'))
CompletedFlag(r) == "completed" \in DOMAIN r /\ r.completed

\* C32: the analyze_frame call that completes the final step emits
\* 'step_completed' with expected_next = None and without the 'completed'
\* flag; status 'completed' (and the 'completed' flag the webcam loop
\* checks) is emitted only by a later call that starts with
\* current_step == len(steps).
C32_CompletedOnLaterCall ==
    [][Called =>
        /\ (current_step < Len(instruction)
                /\ current_step' = Len(instruction)) =>
                    /\ result'[1].status = "step_completed"
                    /\ result'[1].expected_next = None
                    /\ ~CompletedFlag(result'[1])
        /\ result'[1].status = "completed" <=> current_step = Len(instruction)
        /\ CompletedFlag(result'[1]) <=> current_step = Len(instruction)]_vars

\* C32 witness: the second call completed the final step of a two-step
\* checklist and the third call, made with the cursor at the end, emitted
\* 'completed' with the flag
C32_Witness ==
    /\ pc = "live"
    /\ Len(instruction) = 2
    /\ Len(action_history) = 3
    /\ current_step = 2
    /\ result[1].status = "completed"
    /\ CompletedFlag(result[1])

(***************************************************************************)
(* Liveness of the live tracker.  The frame loop calls analyze_frame on    *)
(* every frame that is due, whatever the last reply was                    *)
(* (src/analyze_webcam.py:89-100), so a call that can be made is           *)
(* eventually made.  The history grows with every call; analyze_frame      *)
(* stops after MaxCalls calls.                                             *)
(***************************************************************************)
\* checklists of at most MaxSteps steps, numbered 1, 2, ... in order
NumberedInstructions ==
    UNION {{[i \in 1..n |-> InstructionStep(i, texts[i])] :
                texts \in [1..n -> StepTexts]} : n \in 0..MaxSteps}

\* LiveAnalyzer.__init__ (src/live_analyzer.py:31-43) on such a checklist
InitLiveFair ==
    /\ instruction \in NumberedInstructions
    /\ current_step = 0
    /\ completed_steps = <<>>
    /\ last_analysis_time = 0
    /\ current_action = None
    /\ warnings = <<>>
    /\ action_history = <<>>
    /\ result = None
    /\ calls = 0
    /\ detected_actions = <<>>
    /\ llm_response = <<>>
    /\ matches = <<>>
    /\ frame_actions = <<>>
    /\ missing_steps = <<>>
    /\ extra_actions = <<>>
    /\ summary = None
    /\ arg_instruction_desc = <<>>
    /\ arg_action_desc = <<>>
    /\ returned_score = None
    /\ returned_similar = None
    /\ NoSquatRun
    /\ pc = "live"
    /\ NoWebcamRun
    /\ NoRecorderRun

\* descriptions the vision model returns: "A b", "c  d\n", "a c"
FairTexts ==
    {<<"A", " ", "b">>, <<"c", " ", " ", "d", "\n">>, <<"a", " ", "c">>}

NextLiveFair ==
    \E description \in FairTexts,
       timestamp \in {last_analysis_time + AnalysisInterval} :
        analyze_frame(description, timestamp)

SpecLiveFair ==
    InitLiveFair /\ [][NextLiveFair]_vars /\ WF_vars(NextLiveFair)

\* the step at 0-based index i is the expected one
ExpectedIs(i) == i < Len(instruction) /\ current_step = i

\* the last call was made while the step at index i was expected (its
\* result names that step) with an observation scoring > 0.3 against it
Supplied(i) ==
    /\ i < Len(instruction)
    /\ action_history # <<>>
    /\ result # None
    /\ result[1].current_step = Some(StepNumberAt(i))
    /\ Scores(i, LastObserved)

\* the tracker is at the end of the checklist and has emitted 'completed'
EmittedCompleted ==
    /\ current_step = Len(instruction)
    /\ result # None
    /\ result[1].status = "completed"

\* the calls have run out with the cursor at the end of the checklist and
\* 'completed' not yet reported
CallsEndedAtEnd ==
    /\ current_step = Len(instruction)
    /\ ~EmittedCompleted
    /\ Len(action_history) = MaxCalls

\* C33: if analyze_frame keeps being called and, for each step, an
\* observation scoring > 0.3 against it is eventually supplied while it is
\* the expected step, then the tracker eventually reaches
\* current_step == len(steps) and emits 'completed'; intervening 'warning'
\* and 'in_progress' observations never block later progress.  Every call
\* made with the cursor at the end reports 'completed', and a session in
\* which no step stays expected for ever without being supplied reaches that
\* call, unless the calls end with the cursor at the end just before it.
C33_EventuallyCompleted ==
    /\ [][(Called /\ current_step = Len(instruction)) =>
            /\ result'[1].status = "completed"
            /\ current_step' = current_step]_vars
    /\ (\A i \in 0..(MaxSteps - 1) : []<>(~ExpectedIs(i) \/ Supplied(i)))
            => <>(EmittedCompleted \/ CallsEndedAtEnd)

\* C33 witness: a one-step checklist was completed and 'completed' emitted
\* by the third call: one observation before made no progress
C33_Witness ==
    /\ EmittedCompleted
    /\ Len(instruction) = 1
    /\ Len(action_history) = 3
    /\ Len(completed_steps) = 1

(***************************************************************************)
(* Further claims about the webcam session, checked under SpecWebcam.      *)
(***************************************************************************)
\* C34: rate limiting in the live webcam loop: analyze_frame is invoked
\* only on frames for which should_analyze(timestamp) is true, so the
\* timestamps of any two consecutive analyses differ by at least
\* analysis_interval, and because last_analysis_time starts at 0 the first
\* analysis happens no earlier than timestamp analysis_interval.
C34_RateLimited ==
    /\ [][(Replied \/ pc' = "failed") =>
            frame_time - last_analysis_time >= AnalysisInterval]_vars
    /\ [](\A k \in DOMAIN action_history :
            action_history[k].timestamp_start -
                (IF k = 1 THEN 0 ELSE action_history[k - 1].timestamp_start)
                    >= AnalysisInterval)

\* C34 witness: the frame at 4 s was not analysed; the frames at 5 s and at
\* 10 s, exactly one interval apart, were
C34_Witness ==
    /\ calls = 2
    /\ action_history[1].timestamp_start = AnalysisInterval
    /\ action_history[2].timestamp_start = 2 * AnalysisInterval
    /\ last_analysis_time = 2 * AnalysisInterval

(***************************************************************************)
(* Claims about the batch summary, checked under SpecVideo.                *)
(***************************************************************************)
\* step numbers of the rows the summary renders as not completed, in order
RenderedMissing ==
    LET rows == SelectSeq(summary[1].rows, LAMBDA row : ~row.done)
    IN  [i \in DOMAIN rows |-> rows[i].step_number]

\* C35: the batch summary is consistent with missing_steps: missing_steps is
\* exactly the step numbers whose ActionMatch has matched=false (in step
\* order), and the steps the summary renders as not completed are exactly
\* those in missing_steps, so the header count of completed steps equals the
\* number of steps rendered as completed.  (Violated: a match with
\* matched=true and no detected action is counted in the header and left
\* out of missing_steps, and rendered as not completed.)
C35_SummaryConsistent ==
    pc = "analyzed" =>
        /\ missing_steps =
                LET unmatched == SelectSeq(matches, LAMBDA m : ~m.matched)
                IN  [i \in DOMAIN unmatched |-> unmatched[i].step_number]
        /\ RenderedMissing = missing_steps
        /\ summary[1].header[1] =
                Len(SelectSeq(summary[1].rows, LAMBDA row : row.done))

(***************************************************************************)
(* _merge_similar_actions as a function of any list of actions ordered by  *)
(* timestamp_start (src/ai_agent.py:175-194): one call on the list, then   *)
(* one call on what the first call returned.                               *)
(***************************************************************************)
\* the call _merge_similar_actions(frame_actions): detected_actions is the
\* list returned, frame_actions the list passed in as the call leaves it
merge_similar_actions ==
    /\ pc = "merge"
    /\ detected_actions' = _merge_similar_actions(frame_actions)
    /\ frame_actions' = ArgumentAfterMerge(frame_actions)
    /\ pc' = "merged"
    /\ UNCHANGED <<instruction, llm_response, matches>>
    /\ UNCHANGED <<missing_steps, extra_actions, summary>>
    /\ UNCHANGED <<liveVars, scoreVars, squatVars, webcamVars, recorderVars>>

\* the call _merge_similar_actions(detected_actions), its argument being
\* the list the first call returned: detected_actions is the list returned,
\* frame_actions the list passed in as the call leaves it
merge_merged_actions ==
    /\ pc = "merged"
    /\ detected_actions' = _merge_similar_actions(detected_actions)
    /\ frame_actions' = ArgumentAfterMerge(detected_actions)
    /\ pc' = "remerged"
    /\ UNCHANGED <<instruction, llm_response, matches>>
    /\ UNCHANGED <<missing_steps, extra_actions, summary>>
    /\ UNCHANGED <<liveVars, scoreVars, squatVars, webcamVars, recorderVars>>

\* descriptions: "a b c", "a b", "a b c d", "x"
MergeTexts ==
    {<<"a", " ", "b", " ", "c">>, <<"a", " ", "b">>,
     <<"a", " ", "b", " ", "c", " ", "d">>, <<"x">>}

\* lists of MaxFrames intervals at most, ordered by timestamp_start; the
\* intervals may overlap
MergeSlotChoices ==
    {q \in UNION {[1..n -> DOMAIN FrameSlots] : n \in 0..MaxFrames} :
        \A i, j \in DOMAIN q :
            i < j => /\ q[i] < q[j]
                     /\ FrameSlots[q[i]][1] <= FrameSlots[q[j]][1]}

MergeActionLists ==
    UNION {{[i \in DOMAIN slots |->
                DetectedAction(texts[i], FrameSlots[slots[i]][1],
                               FrameSlots[slots[i]][2])] :
                texts \in [DOMAIN slots -> MergeTexts]} :
           slots \in MergeSlotChoices}

InitMerge ==
    /\ frame_actions \in MergeActionLists
    /\ detected_actions = <<>>
    /\ pc = "merge"
    /\ instruction = <<>>
    /\ llm_response = <<>>
    /\ matches = <<>>
    /\ missing_steps = <<>>
    /\ extra_actions = <<>>
    /\ summary = None
    /\ current_step = 0
    /\ completed_steps = <<>>
    /\ last_analysis_time = 0
    /\ current_action = None
    /\ warnings = <<>>
    /\ action_history = <<>>
    /\ result = None
    /\ arg_instruction_desc = <<>>
    /\ arg_action_desc = <<>>
    /\ returned_score = None
    /\ returned_similar = None
    /\ NoSquatRun
    /\ calls = 0
    /\ NoWebcamRun
    /\ NoRecorderRun

NextMerge == merge_similar_actions \/ merge_merged_actions

SpecMerge == InitMerge /\ [][NextMerge]_vars

\* the two lists hold the same intervals: same descriptions, starts and ends
SameIntervals(first, second) ==
    /\ Len(first) = Len(second)
    /\ \A k \in DOMAIN first :
        /\ first[k].description = second[k].description
        /\ first[k].timestamp_start = second[k].timestamp_start
        /\ first[k].timestamp_end = second[k].timestamp_end

\* C36: merging is idempotent: for any input sequence ordered by
\* timestamp_start, applying _merge_similar_actions to its own output
\* returns the same sequence of intervals (same descriptions, starts and
\* ends), and leaves the list it was given as it was.
C36_MergeIdempotent ==
    /\ [][pc = "merged" => SameIntervals(detected_actions', detected_actions)]_vars
    /\ [](pc = "remerged" => SameIntervals(detected_actions, frame_actions))

\* C36 witness: the second call ran on a list of two intervals, the first of
\* which the first call had extended to 15 s, and returned two intervals
C36_Witness ==
    /\ pc = "remerged"
    /\ Len(frame_actions) = 2
    /\ frame_actions[1].timestamp_start = 0
    /\ frame_actions[1].timestamp_end = 15
    /\ frame_actions[2].timestamp_start = 6
    /\ Len(detected_actions) = 2

\* the input positions <<first, last>> each merged interval absorbed, in
\* the order of the intervals
RECURSIVE AbsorbedLoop(_, _, _, _)
AbsorbedLoop(actions, i, merged, runs) ==
    IF i > Len(actions) THEN runs
    ELSE
        LET action == actions[i]
            last_action == merged[Len(merged)]
        IN  IF Absorbs(last_action, action)
            THEN AbsorbedLoop(actions, i + 1,
                    [merged EXCEPT ![Len(merged)] = Absorb(last_action, action)],
                    [runs EXCEPT ![Len(runs)] = <<runs[Len(runs)][1], i>>])
            ELSE AbsorbedLoop(actions, i + 1, Append(merged, action),
                              Append(runs, <<i, i>>))

AbsorbedRuns(actions) ==
    IF actions = <<>> THEN <<>>
    ELSE AbsorbedLoop(actions, 2, <<actions[1]>>, << <<1, 1>> >>)

\* the largest timestamp_end among the actions at positions first..last
LatestEnd(actions, first, last) ==
    CHOOSE e \in {actions[i].timestamp_end : i \in first..last} :
        \A i \in first..last : actions[i].timestamp_end <= e

\* C37: after _merge_similar_actions over input ordered by timestamp_start
\* (each action with timestamp_end >= timestamp_start), every output
\* interval spans all the input actions it absorbed: its timestamp_start is
\* the first absorbed action's start and its timestamp_end is the maximum
\* timestamp_end among them.  (Violated: an absorbed action that ends before
\* the interval does pulls the interval's end back to its own.)
C37_EndIsLatest ==
    [][pc = "merge" =>
        LET runs == AbsorbedRuns(frame_actions)
        IN  /\ Len(runs) = Len(detected_actions')
            /\ \A k \in DOMAIN runs :
                /\ detected_actions'[k].timestamp_start
                        = frame_actions[runs[k][1]].timestamp_start
                /\ detected_actions'[k].timestamp_end
                        = LatestEnd(frame_actions, runs[k][1], runs[k][2])]_vars

\* C37 amended: every output interval starts where the first action it
\* absorbed starts, keeps that action's description, and ends where the
\* last action it absorbed ends; that end is the maximum timestamp_end among
\* the absorbed actions whenever their ends do not decrease along the input.
C37_EndIsLastAbsorbed ==
    [][pc = "merge" =>
        LET runs == AbsorbedRuns(frame_actions)
        IN  /\ Len(runs) = Len(detected_actions')
            /\ \A k \in DOMAIN runs :
                /\ detected_actions'[k].timestamp_start
                        = frame_actions[runs[k][1]].timestamp_start
                /\ detected_actions'[k].description
                        = frame_actions[runs[k][1]].description
                /\ detected_actions'[k].timestamp_end
                        = frame_actions[runs[k][2]].timestamp_end
                /\ (\A i, j \in runs[k][1]..runs[k][2] :
                        i < j => frame_actions[i].timestamp_end
                                    <= frame_actions[j].timestamp_end)
                    => detected_actions'[k].timestamp_end
                        = LatestEnd(frame_actions, runs[k][1], runs[k][2])]_vars

\* C37 witness: an interval that had been extended to the 15 s of the
\* second action absorbed a third action ending at 10 s and now ends at
\* 10 s, in the returned list and in the list that was passed in
C37_Witness ==
    /\ pc = "merged"
    /\ Len(frame_actions) = 3
    /\ frame_actions[2].timestamp_end = 15
    /\ frame_actions[3].timestamp_end = 10
    /\ frame_actions[1].timestamp_end = 10
    /\ Len(detected_actions) = 1
    /\ detected_actions[1].timestamp_end = 10

(***************************************************************************)
(* _calculate_match_score and _are_similar_descriptions called on the same *)
(* two texts (src/ai_agent.py:345-356, 196-207).                           *)
(***************************************************************************)
\* the call _are_similar_descriptions(arg_instruction_desc, arg_action_desc)
are_similar_descriptions ==
    /\ pc = "scored"
    /\ returned_similar' =
            Some(_are_similar_descriptions(arg_instruction_desc, arg_action_desc))
    /\ pc' = "compared"
    /\ UNCHANGED <<instruction, arg_instruction_desc, arg_action_desc,
                   returned_score>>
    /\ UNCHANGED <<liveVars, batchVars, videoVars, webcamVars, recorderVars,
                   squatVars>>

InitSimilar == InitScore

NextSimilar == calculate_match_score \/ are_similar_descriptions

SpecSimilar == InitSimilar /\ [][NextSimilar]_vars

\* C39: the merger's similarity test and the matcher's scorer agree: for
\* all text pairs (a,b), _are_similar_descriptions(a,b) is true exactly when
\* _calculate_match_score(a,b) > 0.5, and it is false when either token set
\* is empty.
C39_SimilarIffScoreAboveHalf ==
    pc = "compared" =>
        /\ returned_similar[1] <=> FracGT(returned_score[1], <<5, 10>>)
        /\ (TokenSet(arg_instruction_desc) = {}
                \/ TokenSet(arg_action_desc) = {})
            => returned_similar[1] = FALSE

\* C39 witness: two texts sharing exactly half of their words scored 1/2 and
\* were found not similar
C39_Witness ==
    /\ pc = "compared"
    /\ FracEQ(returned_score[1], <<1, 2>>)
    /\ returned_similar = Some(FALSE)

(***************************************************************************)
(* SquatsCounter (src/squats_counter.py:21-120): the states are written by *)
(* the names of SquatState, the language model's answer as a text.         *)
(***************************************************************************)
\* SquatState.value (lines 14-18)
SquatStateValue ==
    [STANDING |-> <<"U+0441", "U+0442", "U+043E", "U+0438", "U+0442">>,
     SQUATTING |-> <<"U+043F", "U+0440", "U+0438", "U+0441", "U+0435", "U+0434",
                     "U+0430", "U+0435", "U+0442">>,
     UNKNOWN |-> <<"U+043D", "U+0435", "U+0438", "U+0437", "U+0432", "U+0435",
                   "U+0441", "U+0442", "U+043D", "U+043E">>]

\* Python's "needle in text"
Contains(text, needle) ==
    \E i \in 1..(Len(text) - Len(needle) + 1) :
        SubSeq(text, i, i + Len(needle) - 1) = needle

\* the words looked for in the answer (lines 115-117)
WordStanding == <<"U+0421", "U+0422", "U+041E", "U+0418", "U+0422">>
WordSquatting ==
    <<"U+041F", "U+0420", "U+0418", "U+0421", "U+0415", "U+0414", "U+0410",
      "U+0415", "U+0422">>
WordSquat == <<"U+041F", "U+0420", "U+0418", "U+0421", "U+0415", "U+0414">>

\* _detect_squat_state (lines 79-120), content being response.content
_detect_squat_state(content) ==
    LET answer == upper(strip(content))
    IN  IF Contains(answer, WordStanding)
            \/ Contains(answer, <<"S", "T", "A", "N", "D", "I", "N", "G">>)
        THEN "STANDING"
        ELSE IF \/ Contains(answer, WordSquatting)
                \/ Contains(answer, WordSquat)
                \/ Contains(answer, <<"S", "Q", "U", "A", "T">>)
        THEN "SQUATTING"
        ELSE "UNKNOWN"

\* analyze_frame calls made on one SquatsCounter, at most
MaxSquatCalls == 5

\* mutant: standing up from any other state counts as a squat
CountsSquat_on_standing(recorded, state) ==
    recorded # "STANDING" /\ state = "STANDING"

\* line 63: the transition that counts as one squat
CountsSquat(recorded, state) ==
    recorded = "SQUATTING" /\ state = "STANDING"

\* SquatsCounter.analyze_frame (lines 47-77), the language model answering
\* content
SquatsCounter_analyze_frame(content, timestamp) ==
    /\ pc \in {"squats", "squats_raised"}
    /\ Len(detected_states) < MaxSquatCalls
    /\ LET state == _detect_squat_state(content)
           count == IF CountsSquat(current_state, state)
                    THEN squat_count + 1 ELSE squat_count
       IN  /\ squat_count' = count
           /\ current_state' = state
           /\ squat_analysis_time' = timestamp
           /\ squat_result' = Some([count |-> count,
                                    state |-> SquatStateValue[state],
                                    timestamp |-> timestamp])
           /\ detected_states' = Append(detected_states, state)
    /\ pc' = "squats"
    /\ UNCHANGED <<instruction, liveVars, batchVars, videoVars, scoreVars,
                   webcamVars, recorderVars>>

\* SquatsCounter.analyze_frame when llm.invoke raises (line 110): the
\* exception leaves the call before any field is assigned
SquatsCounter_analyze_frame_raises ==
    /\ pc = "squats"
    /\ pc' = "squats_raised"
    /\ UNCHANGED <<instruction, liveVars, batchVars, videoVars, scoreVars,
                   webcamVars, recorderVars>>
    /\ UNCHANGED squatVars

\* answers: "СТОИТ", " стоит\n", "Standing", "ПРИСЕДАЕТ", "squat", "НЕТ",
\* "ПРИСЕД, НЕ СТОИТ"
SquatAnswers ==
    {WordStanding,
     <<" ", "U+0441", "U+0442", "U+043E", "U+0438", "U+0442", "\n">>,
     <<"S", "t", "a", "n", "d", "i", "n", "g">>,
     WordSquatting,
     <<"s", "q", "u", "a", "t">>,
     <<"U+041D", "U+0415", "U+0422">>,
     WordSquat \o <<",", " ", "U+041D", "U+0415", " ">> \o WordStanding}

SquatTimes == {1, 2}

InitSquats ==
    /\ NoSquatRun
    /\ pc = "squats"
    /\ instruction = <<>>
    /\ current_step = 0
    /\ completed_steps = <<>>
    /\ last_analysis_time = 0
    /\ current_action = None
    /\ warnings = <<>>
    /\ action_history = <<>>
    /\ result = None
    /\ calls = 0
    /\ detected_actions = <<>>
    /\ llm_response = <<>>
    /\ matches = <<>>
    /\ frame_actions = <<>>
    /\ missing_steps = <<>>
    /\ extra_actions = <<>>
    /\ summary = None
    /\ arg_instruction_desc = <<>>
    /\ arg_action_desc = <<>>
    /\ returned_score = None
    /\ returned_similar = None
    /\ NoWebcamRun
    /\ NoRecorderRun

NextSquats ==
    \/ \E content \in SquatAnswers, timestamp \in SquatTimes :
            SquatsCounter_analyze_frame(content, timestamp)
    \/ SquatsCounter_analyze_frame_raises

SpecSquats == InitSquats /\ [][NextSquats]_vars

\* the step is a SquatsCounter.analyze_frame call that returned
SquatCalled == Len(detected_states') = Len(detected_states) + 1

\* the positions of detected_states at which SQUATTING is followed by
\* STANDING
StoodUpAt ==
    {i \in 1..(Len(detected_states) - 1) :
        detected_states[i] = "SQUATTING" /\ detected_states[i + 1] = "STANDING"}

\* C38: over any sequence of SquatsCounter.analyze_frame calls, squat_count
\* increases by exactly 1 on a call if and only if the previously recorded
\* state was SQUATTING and the newly detected state is STANDING, and is
\* unchanged otherwise; hence it never decreases, and it is the number of
\* times a call detecting SQUATTING was directly followed by a call
\* detecting STANDING, so that a SQUATTING -> UNKNOWN -> STANDING sequence
\* counts no squat.
C38_CountsStandingUp ==
    /\ [][/\ squat_count' >= squat_count
          /\ IF /\ SquatCalled
                /\ current_state = "SQUATTING"
                /\ detected_states'[Len(detected_states')] = "STANDING"
             THEN squat_count' = squat_count + 1
             ELSE squat_count' = squat_count]_vars
    /\ [](/\ squat_count = Cardinality(StoodUpAt)
          /\ detected_states # <<>> =>
                /\ current_state = detected_states[Len(detected_states)]
                /\ squat_result # None
                /\ squat_result[1].count = squat_count
                /\ squat_result[1].state = SquatStateValue[current_state])

\* C38 witness: SQUATTING, STANDING, SQUATTING, UNKNOWN, STANDING was
\* detected: the first standing up counted one squat, the second, after
\* UNKNOWN, none
C38_Witness ==
    /\ detected_states =
            <<"SQUATTING", "STANDING", "SQUATTING", "UNKNOWN", "STANDING">>
    /\ squat_count = 1

====
